---- MODULE Spec2Model ----
(***************************************************************************)
(* A model of the windpipe stream library's concurrency core: the atom     *)
(* model, merge, bufferedMap, fromPusher, flatMap and cachedFlatMap.       *)
(*                                                                         *)
(* JavaScript runs every piece of code between two suspension points       *)
(* (await, yield) to completion, so each action below is one such piece.   *)
(* A promise is modelled by its state: pending, or resolved with a result. *)
(***************************************************************************)
EXTENDS Integers, Sequences, FiniteSets, Bags, TLC

VARIABLES
    \* ---- merge (stream/higher-order.ts) ----
    outerSrc,        \* the atoms the outer stream will produce, in order
    subLen,          \* subLen[k]: how many atoms sub-stream k will produce
    outerPos,        \* how many outer atoms the outer stream has handed to a pull
    outerStale,      \* unresolved outer.next() calls whose promise merge no longer holds
    outerReq,        \* the outer.next() promise of the current loop iteration
    outerExhausted,  \* merge's flag
    innerPending,    \* merge's map: iterator -> its pending next() promise
    innerPos,        \* innerPos[k]: how many atoms sub-stream k has handed to a pull
    mergePc,         \* "loop" | "race" | "yield" | "end"
    resumeInner,     \* at a yield: the inner iterator to pull again on resume (0: none)
    mergeOut,        \* the atoms merge has yielded, in order
    opened,          \* the sub-streams merge has discovered (history)
    reportedDone,    \* the sub-streams whose exhaustion merge has seen (history)
    \* ---- bufferedMap (stream/transforms.ts) ----
    bmSrc,              \* the atoms upstream will produce, in order
    bmOptions,          \* options: maxBufferSize (0: unset), maxBufferPeriod, delay (set or not)
    bmPulled,           \* how many upstream atoms the producer loop has received
    buffer,             \* the pending results: upstream index of each promise, oldest first
    settleOrder,        \* upstream indices of the promises settled so far, in settling order
    itemReadySignal,    \* the current signal object: its generation and whether done() was called
    bufferPulledSignal, \* likewise
    periodElapsed,      \* Date.now() - lastPull >= maxBufferPeriod
    end,                \* the producer's flag
    producerPc,         \* "pulling" | "delay" | "waitPulled" | "finished"
    producerAwaits,     \* generation of the bufferPulledSignal the producer awaits
    consumerPc,         \* "idle" | "waitItem" | "awaitValue" | "ended"
    consumerAwaits,     \* generation of the itemReadySignal the consumer awaits
    consumerValue,      \* upstream index of the promise the consumer awaits (0: none)
    bmOut,              \* the atoms the stream has delivered, in order
    \* ---- fromPusher (stream/base.ts) ----
    queue,           \* the values waiting to be delivered
    done,            \* the flag set by done()
    signal,          \* the current signal object
    pullPc,          \* "idle" | "suspended" | "ended"
    retry,           \* the retry argument of the suspended call of next
    pushLog,         \* every push() call: its value and whether done() came before (history)
    delivered,       \* the atoms the stream has delivered, in order
    \* ---- flatMap and cachedFlatMap (stream/higher-order.ts) ----
    flatSrc,         \* the atoms upstream will produce, in order (the same for both)
    cbOf,            \* cbOf[v]: what the callback does for the value v
    keyFn,           \* keyFn[v]: the key of the value v
    cache,           \* cachedFlatMap's map: key -> atoms
    cfmPos,          \* how many upstream atoms cachedFlatMap has received
    cfmPc,           \* "next" | "draining" | "end"
    cfmKey,          \* the key of the atom whose sub-stream is being drained
    cfmSub,          \* what is left of the sub-stream being drained by toArray
    cfmValues,       \* toArray's array so far
    cfmCalls,        \* the values the callback was invoked with, in order (history)
    cfmOut,          \* the atoms cachedFlatMap has yielded, in order
    fmPos,           \* how many upstream atoms flatMap has received
    fmPc,            \* "next" | "sub" | "end"
    fmSub,           \* what is left of the sub-stream being yielded
    fmOut,           \* the atoms flatMap has yielded, in order
    \* ---- batch (stream/transforms.ts) ----
    batchSrc,        \* the atoms upstream will produce, in order
    batchOptions,    \* the options batch was called with
    batchCalls,      \* how many times atoms.next() has been called
    batchAnswered,   \* how many of these calls upstream has answered
    nextAtom,        \* the promise of the call in nextAtom.call
    heartbeat,       \* "pending" | "resolved"
    batches,         \* the buckets in the order they were created
    totalBatchSize,
    batchPc,         \* "loop" | "final" (await heartbeat after the loop) | "done"
    batchTicks,      \* how many heartbeats have resolved
    batchSeen,       \* the atoms the loop has taken from nextAtom, in order (history)
    batchOut,        \* the atoms batch has yielded, in order
    \* ---- handler and run (handler.ts) ----
    hKind,           \* what the callback does (see HandlerOutcome)
    hValue,          \* the value it does it with
    hTrace,          \* the trace passed in
    hPc,             \* "called" | "returned"
    hRunResult,      \* what the promise of run resolved to
    hResult,         \* what the promise of handler resolved to
    \* ---- one stage: map, filter, take, drop or otherwise ----
    stKind,          \* which transform the stage is
    stSrc,           \* the atoms upstream will produce, in order
    stCb,            \* stCb[i]: what the callback does with the value i
    stN,             \* the n of take and drop
    stAtoms,         \* options.atoms of take and drop
    stOther,         \* the argument of otherwise: "stream" | "callback" | "throwing"
    stPos,           \* how many upstream atoms the generator has received
    stCount,         \* the counter of take, drop and otherwise
    stPc,            \* "next" | "ended" | "errored" (the generator threw)
    stCalls,         \* the upstream positions the callback was invoked for (history)
    stOut,           \* the atoms the stage has yielded, in order
    \* ---- the traces of streams derived from one another (stream/base.ts) ----
    trStreams,       \* the Stream objects, in the order they were created
    \* ---- fromNext, fromPromise and fromCallback (stream/base.ts) ----
    fnMode,          \* "script": fromNext(next) | "callback": fromCallback(cb)
    fnScript,        \* fnScript[i]: what the i-th call of the given next does
    fnCbCalled,      \* the node-style callback has been called
    fnPromise,       \* what createNodeCallback's promise resolved with (NoAtom: pending)
    fnCalls,         \* how many times read() has called next
    fnPc,            \* "idle" | "reading" | "ended"
    fnOut,           \* the atoms the stream has delivered, in order
    \* ---- flatMap over a concatenation (stream/higher-order.ts) ----
    catXs,           \* the atoms of the first upstream
    catYs,           \* the atoms of the second upstream
    catCb,           \* catCb[v]: what the callback does for the value v
    catPc,           \* "start" | "done"
    catWhole,        \* flatMap of the concatenation of the two upstreams
    catParts,        \* the concatenation of the flatMaps of the two upstreams
    \* ---- a pipeline of two stages ----
    plSrc,           \* the atoms the source will produce, in order
    plStages,        \* plStages[k]: the transform of the k-th stage
    plCb,            \* plCb[k][i]: what the callback of stage k does for what stems from source atom i
    plIn,            \* plIn[k]: how many atoms stage k has received
    plBuf,           \* plBuf[k]: the buffer of pending results of a bufferedMap stage
    plOut            \* plOut[k]: what stage k has delivered, each atom with the source atom it stems from

mergeVars == << outerSrc, subLen, outerPos, outerStale, outerReq, outerExhausted,
                innerPending, innerPos, mergePc, resumeInner, mergeOut, opened,
                reportedDone >>

bmVars == << bmSrc, bmOptions, bmPulled, buffer, settleOrder, itemReadySignal,
             bufferPulledSignal, periodElapsed, end, producerPc, producerAwaits,
             consumerPc, consumerAwaits, consumerValue, bmOut >>

pusherVars == << queue, done, signal, pullPc, retry, pushLog, delivered >>

flatVars == << flatSrc, cbOf, keyFn, cache, cfmPos, cfmPc, cfmKey, cfmSub,
               cfmValues, cfmCalls, cfmOut, fmPos, fmPc, fmSub, fmOut >>

batchVars == << batchSrc, batchOptions, batchCalls, batchAnswered, nextAtom,
                heartbeat, batches, totalBatchSize, batchPc, batchTicks, batchSeen,
                batchOut >>

handlerVars == << hKind, hValue, hTrace, hPc, hRunResult, hResult >>

stageVars == << stKind, stSrc, stCb, stN, stAtoms, stOther, stPos, stCount, stPc,
                stCalls, stOut >>

traceVars == << trStreams >>

fromNextVars == << fnMode, fnScript, fnCbCalled, fnPromise, fnCalls, fnPc, fnOut >>

concatVars == << catXs, catYs, catCb, catPc, catWhole, catParts >>

pipeVars == << plSrc, plStages, plCb, plIn, plBuf, plOut >>

vars == << mergeVars, bmVars, pusherVars, flatVars, batchVars, handlerVars, stageVars, traceVars, fromNextVars, concatVars, pipeVars >>

\* What the actions of one combinator leave alone: the other combinators.
mergeOthers == << bmVars, pusherVars, flatVars, batchVars, handlerVars, stageVars,
    traceVars,
    fromNextVars,
    concatVars,
    pipeVars >>

bmOthers == << mergeVars, pusherVars, flatVars, batchVars, handlerVars, stageVars,
    traceVars,
    fromNextVars,
    concatVars,
    pipeVars >>

pusherOthers == << mergeVars, bmVars, flatVars, batchVars, handlerVars, stageVars,
    traceVars,
    fromNextVars,
    concatVars,
    pipeVars >>

flatOthers == << mergeVars, bmVars, pusherVars, batchVars, handlerVars, stageVars,
    traceVars,
    fromNextVars,
    concatVars,
    pipeVars >>

batchOthers == << mergeVars, bmVars, pusherVars, flatVars, handlerVars, stageVars,
    traceVars,
    fromNextVars,
    concatVars,
    pipeVars >>

handlerOthers == << mergeVars, bmVars, pusherVars, flatVars, batchVars, stageVars,
    traceVars,
    fromNextVars,
    concatVars,
    pipeVars >>

stageOthers == << mergeVars, bmVars, pusherVars, flatVars, batchVars, handlerVars,
    traceVars,
    fromNextVars,
    concatVars,
    pipeVars >>

traceOthers == << mergeVars, bmVars, pusherVars, flatVars, batchVars, handlerVars, stageVars,
    fromNextVars,
    concatVars,
    pipeVars >>

fromNextOthers == << mergeVars, bmVars, pusherVars, flatVars, batchVars, handlerVars, stageVars, traceVars,
    concatVars,
    pipeVars >>

concatOthers == << mergeVars, bmVars, pusherVars, flatVars, batchVars, handlerVars, stageVars, traceVars, fromNextVars,
    pipeVars >>

pipeOthers == << mergeVars, bmVars, pusherVars, flatVars, batchVars, handlerVars, stageVars, traceVars, fromNextVars, concatVars >>

-----------------------------------------------------------------------------
(* Bounds of the model. *)

MaxOuterLen == 3
MaxSubLen == 2
MaxUpLen == 3
MaxBufferSize == 2
MaxPushes == 3
MaxFlatLen == 3
MaxBatchLen == 4
MaxBatchN == 2
MaxTicks == 2
MaxHandlerValue == 3
MaxStageLen == 3
MaxStageN == 2
MaxStreams == 4
MaxNextCalls == 3
MaxCatLen == 2
MaxPipeLen == 2

-----------------------------------------------------------------------------
(* Atoms (atom.ts). *)

Ok(v) == [type |-> "ok", value |-> v]

Error(v) == [type |-> "error", value |-> v]

Exception(v, trace) == [type |-> "exception", value |-> v, trace |-> trace]

isOk(atom) == atom.type = "ok"

isError(atom) == atom.type = "error"

isException(atom) == atom.type = "exception"

\* An Ok atom whose value is the Stream object with handle k.
OkStream(k) == [type |-> "ok", value |-> k, stream |-> TRUE]

\* atom.value instanceof Stream
IsStream(atom) == "stream" \in DOMAIN atom

Range(s) == {s[i] : i \in DOMAIN s}

IsPrefix(s, t) == Len(s) <= Len(t) /\ s = SubSeq(t, 1, Len(s))

-----------------------------------------------------------------------------
(* Promises of an iterator's next(): pending, or resolved with an          *)
(* IteratorResult {done, value}.                                           *)

NoAtom == [type |-> "none"]

NoReq == [state |-> "none", done |-> FALSE, value |-> NoAtom]

PendingReq == [state |-> "pending", done |-> FALSE, value |-> NoAtom]

ResolvedReq(isDone, atom) == [state |-> "resolved", done |-> isDone, value |-> atom]

\* What a stream that produces `src` answers to the pull that follows `pos`
\* answered ones.
\* A stream that never reports its end.
NextResultNeverEnds(src, pos) ==
    IF pos < Len(src) THEN ResolvedReq(FALSE, src[pos + 1]) ELSE PendingReq

NextResult(src, pos) ==
    IF pos < Len(src) THEN ResolvedReq(FALSE, src[pos + 1])
    ELSE ResolvedReq(TRUE, NoAtom)

-----------------------------------------------------------------------------
(* merge *)

SubIds == {1, 2}

\* The atoms of sub-stream k: distinct from every other atom of the run.
SubAtom(k, i) == IF i % 2 = 1 THEN Ok(10 * k + i) ELSE Error(10 * k + i)

SubSrc(k, n) == [i \in 1..n |-> SubAtom(k, i)]

OuterItems == {OkStream(k) : k \in SubIds} \cup {Ok(1), Error(2)}

\* Outer streams: every item occurs once (a Stream object has one consumer).
OuterSeqs ==
    {s \in UNION {[1..n -> OuterItems] : n \in 0..MaxOuterLen} :
        \A i, j \in DOMAIN s : i # j => s[i] # s[j]}

MergeInit ==
    /\ outerSrc \in OuterSeqs
    /\ subLen \in [SubIds -> 0..MaxSubLen]
    /\ outerPos = 0
    /\ outerStale = 0
    /\ outerReq = NoReq
    /\ outerExhausted = FALSE
    /\ innerPending = << >>
    /\ innerPos = [k \in SubIds |-> 0]
    /\ mergePc = "loop"
    /\ resumeInner = 0
    /\ mergeOut = << >>
    /\ opened = {}
    /\ reportedDone = {}

\* A loop that stops as soon as the outer stream is exhausted.
MergeContinueOuterOnly(exhausted, pending) == ~exhausted

\* while (!outerExhausted || innerPending.size > 0)
MergeContinue(exhausted, pending) == ~exhausted \/ DOMAIN pending # {}

\* innerPending.set(iterator, iterator.next())
PullInner(pending, k) == (k :> PendingReq) @@ pending

\* innerPending.delete(iterator)
DeleteInner(pending, k) == [j \in DOMAIN pending \ {k} |-> pending[j]]

\* The top of the loop: test the condition and, unless the outer stream is
\* exhausted, call outer.next() for this iteration's race.
MergeLoop ==
    /\ mergePc = "loop"
    /\ IF MergeContinue(outerExhausted, innerPending)
       THEN /\ mergePc' = "race"
            /\ outerReq' = IF outerExhausted THEN NoReq ELSE PendingReq
       ELSE /\ mergePc' = "end"
            /\ outerReq' = outerReq
    /\ UNCHANGED << outerSrc, subLen, outerPos, outerStale, outerExhausted,
                    innerPending, innerPos, resumeInner, mergeOut, opened,
                    reportedDone >>
    /\ UNCHANGED mergeOthers

\* The outer stream answers its oldest unanswered next() call (an async
\* iterator answers its calls in the order they were made).
OuterDeliver ==
    /\ \/ outerStale > 0
       \/ outerReq.state = "pending"
    /\ IF outerStale > 0
       THEN /\ outerStale' = outerStale - 1
            /\ outerReq' = outerReq
       ELSE /\ outerStale' = outerStale
            /\ outerReq' = NextResult(outerSrc, outerPos)
    /\ outerPos' = IF outerPos < Len(outerSrc) THEN outerPos + 1 ELSE outerPos
    /\ UNCHANGED << outerSrc, subLen, outerExhausted, innerPending, innerPos,
                    mergePc, resumeInner, mergeOut, opened, reportedDone >>
    /\ UNCHANGED mergeOthers

\* Sub-stream k answers its pending next() call.
InnerDeliver(k) ==
    /\ k \in DOMAIN innerPending
    /\ innerPending[k].state = "pending"
    /\ innerPending' =
           [innerPending EXCEPT ![k] = NextResult(SubSrc(k, subLen[k]), innerPos[k])]
    /\ innerPos' =
           [innerPos EXCEPT ![k] = IF @ < subLen[k] THEN @ + 1 ELSE @]
    /\ UNCHANGED << outerSrc, subLen, outerPos, outerStale, outerReq,
                    outerExhausted, mergePc, resumeInner, mergeOut, opened,
                    reportedDone >>
    /\ UNCHANGED mergeOthers

\* This iteration's outer.next() promise is not kept after the race: if it
\* is still pending its call stays queued at the outer stream.
DropOuterReq ==
    /\ outerStale' = IF outerReq.state = "pending" THEN outerStale + 1 ELSE outerStale
    /\ outerReq' = NoReq

\* An inner promise wins the race.
MergeRaceInner(k) ==
    /\ mergePc = "race"
    /\ k \in DOMAIN innerPending
    /\ innerPending[k].state = "resolved"
    /\ DropOuterReq
    /\ IF innerPending[k].done
       THEN /\ innerPending' = DeleteInner(innerPending, k)
            /\ reportedDone' = reportedDone \cup {k}
            /\ mergePc' = "loop"
            /\ UNCHANGED << resumeInner, mergeOut >>
       ELSE /\ mergeOut' = Append(mergeOut, innerPending[k].value)
            /\ mergePc' = "yield"
            /\ resumeInner' = k
            /\ UNCHANGED << innerPending, reportedDone >>
    /\ UNCHANGED << outerSrc, subLen, outerPos, outerExhausted, innerPos, opened >>
    /\ UNCHANGED mergeOthers

\* The outer promise wins the race.
MergeRaceOuter ==
    /\ mergePc = "race"
    /\ outerReq.state = "resolved"
    /\ outerReq' = NoReq
    /\ IF outerReq.done
       THEN /\ outerExhausted' = TRUE
            /\ mergePc' = "loop"
            /\ UNCHANGED << innerPending, mergeOut, opened >>
       ELSE /\ outerExhausted' = outerExhausted
            /\ IF isOk(outerReq.value) /\ IsStream(outerReq.value)
               THEN /\ innerPending' = PullInner(innerPending, outerReq.value.value)
                    /\ opened' = opened \cup {outerReq.value.value}
                    /\ mergePc' = "loop"
                    /\ mergeOut' = mergeOut
               ELSE /\ mergeOut' = Append(mergeOut, outerReq.value)
                    /\ mergePc' = "yield"
                    /\ UNCHANGED << innerPending, opened >>
    /\ resumeInner' = 0
    /\ UNCHANGED << outerSrc, subLen, outerPos, outerStale, innerPos, reportedDone >>
    /\ UNCHANGED mergeOthers

\* A re-pull that was left out: the resolved promise stays in the map.
RepullInnerForgotten(pending, k) == pending

\* After the yield of an inner atom: innerPending.set(winner.iterator,
\* winner.iterator.next())
RepullInner(pending, k) == PullInner(pending, k)

\* Downstream pulls again: merge resumes after its yield.
MergeResume ==
    /\ mergePc = "yield"
    /\ innerPending' =
           IF resumeInner # 0 THEN RepullInner(innerPending, resumeInner)
           ELSE innerPending
    /\ resumeInner' = 0
    /\ mergePc' = "loop"
    /\ UNCHANGED << outerSrc, subLen, outerPos, outerStale, outerReq,
                    outerExhausted, innerPos, mergeOut, opened, reportedDone >>
    /\ UNCHANGED mergeOthers

MergeNext ==
    \/ MergeLoop
    \/ OuterDeliver
    \/ \E k \in SubIds : InnerDeliver(k)
    \/ \E k \in SubIds : MergeRaceInner(k)
    \/ MergeRaceOuter
    \/ MergeResume

-----------------------------------------------------------------------------
(* User callbacks and the guarded invocation (handler.ts). *)

\* A returned value that is not an atom.
Plain(v) == [plain |-> v]

\* What a callback does: it returns (or resolves to) a value or an atom, or
\* it throws (or rejects with) a value.
Returns(x) == [kind |-> "return", value |-> x]

Throws(e) == [kind |-> "throw", value |-> e]

normalise(x) == IF "type" \in DOMAIN x THEN x ELSE Ok(x.plain)

\* A run that forgets the trace it was given.
runWithoutTrace(outcome, trace) ==
    IF outcome.kind = "throw" THEN Exception(outcome.value, << >>)
    ELSE Ok(outcome.value)

run(outcome, trace) ==
    IF outcome.kind = "throw" THEN Exception(outcome.value, trace)
    ELSE Ok(outcome.value)

\* A handler that answers a throw with a value.
handlerSwallows(outcome, trace) ==
    IF outcome.kind = "throw" THEN Ok(0) ELSE normalise(outcome.value)

handler(outcome, trace) ==
    LET result == run(outcome, trace)
    IN  IF isException(result) THEN result ELSE normalise(result.value)

-----------------------------------------------------------------------------
(* Signals (util.ts newSignal): a promise with its own done().  A variable *)
(* holding a signal is rotated to a fresh one right after done(), so every *)
(* generation older than the current one is resolved.                      *)

newSignal(gen) == [gen |-> gen, resolved |-> FALSE]

SignalDone(sig) == [sig EXCEPT !.resolved = TRUE]

\* Whether the signal of generation gen, once held by the variable that now
\* holds sig, is resolved.
SignalResolved(sig, gen) == gen < sig.gen \/ sig.resolved

-----------------------------------------------------------------------------
(* bufferedMap *)

\* A callback that returns a plain value, returns an atom, or throws,
\* depending on its argument.
MapCallback(v) ==
    CASE v % 3 = 1 -> Returns(Plain(v + 10))
      [] v % 3 = 2 -> Returns(Error(v + 10))
      [] OTHER     -> Throws(v + 10)

BmTrace == << "bufferedMap" >>

\* The promise pushed for an upstream atom settles with this atom.
BmResult(atom) ==
    IF isOk(atom) THEN handler(MapCallback(atom.value), BmTrace) ELSE atom

\* Upstreams: the i-th atom is Ok(i) or Error(i), so that every atom of a
\* run is distinct.
BmSeqs ==
    UNION {{[i \in 1..n |-> IF i \in oks THEN Ok(i) ELSE Error(i)] :
               oks \in SUBSET (1..n)} : n \in 0..MaxUpLen}

BmOptionSets ==
    [maxBufferSize : 0..MaxBufferSize, maxBufferPeriod : BOOLEAN, delay : BOOLEAN]

BufferedMapInit ==
    /\ bmSrc \in BmSeqs
    /\ bmOptions \in BmOptionSets
    /\ bmPulled = 0
    /\ buffer = << >>
    /\ settleOrder = << >>
    /\ itemReadySignal = newSignal(0)
    /\ bufferPulledSignal = newSignal(0)
    /\ periodElapsed = FALSE
    /\ end = FALSE
    /\ producerPc = "pulling"
    /\ producerAwaits = 0
    /\ consumerPc = "idle"
    /\ consumerAwaits = 0
    /\ consumerValue = 0
    /\ bmOut = << >>

\* A cap that lets the buffer grow one past maxBufferSize.
BufferFullOffByOne(len, options) ==
    options.maxBufferSize # 0 /\ len > options.maxBufferSize

\* options?.maxBufferSize && buffer.length >= options?.maxBufferSize
BufferFull(len, options) ==
    options.maxBufferSize # 0 /\ len >= options.maxBufferSize

\* options?.maxBufferPeriod && Date.now() - lastPull >= options?.maxBufferPeriod
PeriodOver(elapsed, options) == options.maxBufferPeriod /\ elapsed

\* Taking the newest pending result instead of the oldest.
BufferPop(buf) == [value |-> buf[Len(buf)], rest |-> SubSeq(buf, 1, Len(buf) - 1)]

\* consumerValue = buffer.shift()
BufferShift(buf) == [value |-> Head(buf), rest |-> Tail(buf)]

\* A producer that waits for a pull of the consumer after every atom.
ProducerHaltSerial(buf) ==
    /\ producerPc' = "waitPulled"
    /\ producerAwaits' = bufferPulledSignal.gen

\* The while loop at the end of the producer's loop body: wait for the
\* next pull, or go on to pull the next upstream atom.
ProducerHalt(buf) ==
    IF BufferFull(Len(buf), bmOptions) \/ PeriodOver(periodElapsed, bmOptions)
    THEN /\ producerPc' = "waitPulled"
         /\ producerAwaits' = bufferPulledSignal.gen
    ELSE /\ producerPc' = "pulling"
         /\ producerAwaits' = producerAwaits

\* Upstream hands the producer its next atom: push the result promise
\* (starting the callback for an Ok atom), trigger and rotate the signal.
ProducerReceive ==
    /\ producerPc = "pulling"
    /\ bmPulled < Len(bmSrc)
    /\ bmPulled' = bmPulled + 1
    /\ buffer' = Append(buffer, bmPulled + 1)
    /\ settleOrder' = IF isOk(bmSrc[bmPulled + 1]) THEN settleOrder
                      ELSE Append(settleOrder, bmPulled + 1)
    /\ itemReadySignal' = newSignal(itemReadySignal.gen + 1)
    /\ IF bmOptions.delay
       THEN producerPc' = "delay" /\ producerAwaits' = producerAwaits
       ELSE ProducerHalt(buffer')
    /\ UNCHANGED << bmSrc, bmOptions, bufferPulledSignal, periodElapsed, end,
                    consumerPc, consumerAwaits, consumerValue, bmOut >>
    /\ UNCHANGED bmOthers

\* The delay timer fires.
ProducerDelayOver ==
    /\ producerPc = "delay"
    /\ ProducerHalt(buffer)
    /\ UNCHANGED << bmSrc, bmOptions, bmPulled, buffer, settleOrder, itemReadySignal,
                    bufferPulledSignal, periodElapsed, end, consumerPc,
                    consumerAwaits, consumerValue, bmOut >>
    /\ UNCHANGED bmOthers

\* The awaited bufferPulledSignal is resolved: test the while condition again.
ProducerWake ==
    /\ producerPc = "waitPulled"
    /\ SignalResolved(bufferPulledSignal, producerAwaits)
    /\ ProducerHalt(buffer)
    /\ UNCHANGED << bmSrc, bmOptions, bmPulled, buffer, settleOrder, itemReadySignal,
                    bufferPulledSignal, periodElapsed, end, consumerPc,
                    consumerAwaits, consumerValue, bmOut >>
    /\ UNCHANGED bmOthers

\* Upstream reports its end: the loop is left.
ProducerFinish ==
    /\ producerPc = "pulling"
    /\ bmPulled = Len(bmSrc)
    /\ end' = TRUE
    /\ itemReadySignal' = SignalDone(itemReadySignal)
    /\ producerPc' = "finished"
    /\ UNCHANGED << bmSrc, bmOptions, bmPulled, buffer, settleOrder,
                    bufferPulledSignal, periodElapsed, producerAwaits, consumerPc,
                    consumerAwaits, consumerValue, bmOut >>
    /\ UNCHANGED bmOthers

\* The callback of a pending promise completes: in any order.
CallbackSettle(i) ==
    /\ i \in 1..bmPulled
    /\ i \notin Range(settleOrder)
    /\ settleOrder' = Append(settleOrder, i)
    /\ UNCHANGED << bmSrc, bmOptions, bmPulled, buffer, itemReadySignal,
                    bufferPulledSignal, periodElapsed, end, producerPc,
                    producerAwaits, consumerPc, consumerAwaits, consumerValue, bmOut >>
    /\ UNCHANGED bmOthers

\* maxBufferPeriod passes without a pull.
PeriodTick ==
    /\ bmOptions.maxBufferPeriod
    /\ ~periodElapsed
    /\ consumerPc # "ended"
    /\ periodElapsed' = TRUE
    /\ UNCHANGED << bmSrc, bmOptions, bmPulled, buffer, settleOrder, itemReadySignal,
                    bufferPulledSignal, end, producerPc, producerAwaits, consumerPc,
                    consumerAwaits, consumerValue, bmOut >>
    /\ UNCHANGED bmOthers

\* The consumer's while loop up to its next await or return.
ConsumerLoop ==
    IF buffer = << >>
    THEN /\ buffer' = buffer
         /\ consumerValue' = 0
         /\ IF end
            THEN consumerPc' = "ended" /\ consumerAwaits' = consumerAwaits
            ELSE consumerPc' = "waitItem" /\ consumerAwaits' = itemReadySignal.gen
    ELSE /\ buffer' = BufferShift(buffer).rest
         /\ consumerValue' = BufferShift(buffer).value
         /\ consumerPc' = "awaitValue"
         /\ consumerAwaits' = consumerAwaits

\* Downstream asks for the next atom.
ConsumerNext ==
    /\ consumerPc = "idle"
    /\ ConsumerLoop
    /\ UNCHANGED << bmSrc, bmOptions, bmPulled, settleOrder, itemReadySignal,
                    bufferPulledSignal, periodElapsed, end, producerPc,
                    producerAwaits, bmOut >>
    /\ UNCHANGED bmOthers

\* The awaited itemReadySignal is resolved.
ConsumerWake ==
    /\ consumerPc = "waitItem"
    /\ SignalResolved(itemReadySignal, consumerAwaits)
    /\ ConsumerLoop
    /\ UNCHANGED << bmSrc, bmOptions, bmPulled, settleOrder, itemReadySignal,
                    bufferPulledSignal, periodElapsed, end, producerPc,
                    producerAwaits, bmOut >>
    /\ UNCHANGED bmOthers

\* The awaited promise is settled: note the pull, trigger and rotate the
\* signal, return the atom.
ConsumerReceive ==
    /\ consumerPc = "awaitValue"
    /\ consumerValue \in Range(settleOrder)
    /\ periodElapsed' = FALSE
    /\ bufferPulledSignal' = newSignal(bufferPulledSignal.gen + 1)
    /\ bmOut' = Append(bmOut, BmResult(bmSrc[consumerValue]))
    /\ consumerValue' = 0
    /\ consumerPc' = "idle"
    /\ UNCHANGED << bmSrc, bmOptions, bmPulled, buffer, settleOrder, itemReadySignal,
                    end, producerPc, producerAwaits, consumerAwaits >>
    /\ UNCHANGED bmOthers

BufferedMapNext ==
    \/ ProducerReceive
    \/ ProducerDelayOver
    \/ ProducerWake
    \/ ProducerFinish
    \/ \E i \in 1..MaxUpLen + 1 : CallbackSettle(i)
    \/ PeriodTick
    \/ ConsumerNext
    \/ ConsumerWake
    \/ ConsumerReceive

-----------------------------------------------------------------------------
(* fromPusher *)

\* next(retry = 10)
RetryLimit == 10

PusherInit ==
    /\ queue = << >>
    /\ done = FALSE
    /\ signal = newSignal(0)
    /\ pullPc = "idle"
    /\ retry = RetryLimit
    /\ pushLog = << >>
    /\ delivered = << >>

\* A push that does not trigger the signal.
PushSignalForgotten(sig) == sig

\* signal.done() in push
PushSignal(sig) == SignalDone(sig)

\* A next that tests the done flag before the queue.
PusherNextDoneFirst(q, isDone) ==
    IF isDone THEN "end" ELSE IF Len(q) > 0 THEN "value" ELSE "wait"

\* A next that ends the stream whenever the queue is empty.
PusherNextEndsWhenEmpty(q, isDone) ==
    IF Len(q) > 0 THEN "value" ELSE "end"

\* The tests at the head of next: a queued value, else the end, else wait.
PusherNextCase(q, isDone) ==
    IF Len(q) > 0 THEN "value" ELSE IF isDone THEN "end" ELSE "wait"

\* A push that does not look at the done flag.
PushAlways(x) ==
    /\ Len(pushLog) < MaxPushes
    /\ pushLog' = Append(pushLog, [value |-> x, afterDone |-> done])
    /\ queue' = Append(queue, x)
    /\ signal' = SignalDone(signal)
    /\ UNCHANGED << done, pullPc, retry, delivered >>
    /\ UNCHANGED pusherOthers

\* push(value): the n-th call pushes the plain value n or the atom Error(n).
Push(x) ==
    /\ Len(pushLog) < MaxPushes
    /\ pushLog' = Append(pushLog, [value |-> x, afterDone |-> done])
    /\ IF done
       THEN UNCHANGED << queue, signal >>
       ELSE /\ queue' = Append(queue, x)
            /\ signal' = PushSignal(signal)
    /\ UNCHANGED << done, pullPc, retry, delivered >>
    /\ UNCHANGED pusherOthers

\* done()
Done ==
    /\ done' = TRUE
    /\ signal' = SignalDone(signal)
    /\ UNCHANGED << queue, pullPc, retry, pushLog, delivered >>
    /\ UNCHANGED pusherOthers

\* next(r) up to its return or its await; fromNext normalises a returned
\* value and ends the stream on StreamEnd.
PusherNext(r) ==
    LET case == PusherNextCase(queue, done)
    IN  /\ queue' = IF case = "value" THEN Tail(queue) ELSE queue
        /\ delivered' = IF case = "value" THEN Append(delivered, normalise(Head(queue)))
                        ELSE delivered
        /\ pullPc' = CASE case = "value" -> "idle"
                       [] case = "end"   -> "ended"
                       [] OTHER          -> "suspended"
        /\ signal' = IF case = "wait" THEN newSignal(signal.gen + 1) ELSE signal
        /\ retry' = IF case = "wait" THEN r ELSE RetryLimit

\* The stream's read calls next().
PullStart ==
    /\ pullPc = "idle"
    /\ PusherNext(RetryLimit)
    /\ UNCHANGED << done, pushLog >>
    /\ UNCHANGED pusherOthers

\* The awaited signal is resolved: give up when retry is 0, else recurse.
PullWake ==
    /\ pullPc = "suspended"
    /\ signal.resolved
    /\ IF retry = 0
       THEN /\ pullPc' = "ended"
            /\ UNCHANGED << queue, signal, retry, delivered >>
       ELSE PusherNext(retry - 1)
    /\ UNCHANGED << done, pushLog >>
    /\ UNCHANGED pusherOthers

PusherNextStep ==
    \/ \E x \in {Plain(Len(pushLog) + 1), Error(Len(pushLog) + 1)} : Push(x)
    \/ Done
    \/ PullStart
    \/ PullWake

-----------------------------------------------------------------------------
(* The trace of a stream (stream/base.ts). *)

\* A new stream: stackTrace = [], traceComplete = false.
NewTrace == [stackTrace |-> << >>, traceComplete |-> FALSE]

\* trace(name): the first call on a stream adds the name, later calls do
\* not; the result is a copy of the stack.
AddTrace(t, name) ==
    IF ~t.traceComplete
    THEN [stackTrace |-> Append(t.stackTrace, name), traceComplete |-> TRUE]
    ELSE t

\* flatMap calls trace("flatMap"), flatMapAtom trace("flatMapAll") and
\* flatOp trace("flatOp") on the same stream.
FlatMapTrace ==
    AddTrace(AddTrace(AddTrace(NewTrace, "flatMap"), "flatMapAll"), "flatOp").stackTrace

CachedFlatMapTrace == AddTrace(NewTrace, "cachedFlatMap").stackTrace

-----------------------------------------------------------------------------
(* flatMap and cachedFlatMap over the same upstream, with the same callback. *)

FlatValues == {1, 2}

FlatItems == {Ok(v) : v \in FlatValues} \cup {Error(3)}

FlatSeqs == UNION {[1..n -> FlatItems] : n \in 0..MaxFlatLen}

\* A new Stream object that will produce these atoms.
StreamOf(atoms) == [atoms |-> atoms]

\* value instanceof Stream
IsStreamValue(x) == "atoms" \in DOMAIN x

\* What a callback may do for the value v: throw, return a new stream, or
\* (against its type) return an atom that is not Ok; cbOf[v] says which.
CallbackKinds == 1..5

CallbackOutcome(v, kind) ==
    CASE kind = 1 -> Throws(v + 50)
      [] kind = 2 -> Returns(StreamOf(<< >>))
      [] kind = 3 -> Returns(StreamOf(<< Ok(7) >>))
      [] kind = 4 -> Returns(StreamOf(<< Ok(10 * v), Error(10 * v + 1),
                                         Exception(10 * v + 2, << >>) >>))
      [] OTHER    -> Returns(Error(v + 60))

Callbacks == [FlatValues -> CallbackKinds]

\* Key functions: one key per value, or the same key for every value.
KeyFns == {[v \in FlatValues |-> v], [v \in FlatValues |-> 0]}

FlatInit ==
    /\ flatSrc \in FlatSeqs
    /\ cbOf \in Callbacks
    /\ keyFn \in KeyFns
    /\ cache = << >>
    /\ cfmPos = 0
    /\ cfmPc = "next"
    /\ cfmKey = 0
    /\ cfmSub = << >>
    /\ cfmValues = << >>
    /\ cfmCalls = << >>
    /\ cfmOut = << >>
    /\ fmPos = 0
    /\ fmPc = "next"
    /\ fmSub = << >>
    /\ fmOut = << >>

\* toArray has received everything and resolves once only the end is left.
DrainedEarly(sub) == Len(sub) <= 1

\* toArray resolves when the sub-stream has ended.
Drained(sub) == sub = << >>

\* A lookup that hands out the Ok atoms of the entry only.
CacheGetOkOnly(c, key) ==
    IF key \in DOMAIN c THEN << TRUE, SelectSeq(c[key], isOk) >> ELSE << FALSE, << >> >>

\* A store that keeps the first atom only.
CacheSetFirst(c, key, values) ==
    (key :> IF values = << >> THEN << >> ELSE << Head(values) >>) @@ c

\* cache.get(key): whether there is an entry, and the entry.
CacheGet(c, key) ==
    IF key \in DOMAIN c THEN << TRUE, c[key] >> ELSE << FALSE, << >> >>

\* cache.set(key, values)
CacheSet(c, key, values) == (key :> values) @@ c

\* cachedFlatMap receives the next upstream atom: pass a non-Ok atom on,
\* replay a cached entry, or invoke the callback; emit the exception of a
\* failed callback, else start draining the returned stream.  When what the
\* callback returned is no stream, value.toArray is no function and the
\* generator throws: the stream is destroyed with that error.
CfmNext ==
    /\ cfmPc = "next"
    /\ cfmPos < Len(flatSrc)
    /\ cfmPos' = cfmPos + 1
    /\ LET atom == flatSrc[cfmPos + 1]
           key == keyFn[atom.value]
           cachedValues == CacheGet(cache, key)
           streamAtom == run(CallbackOutcome(atom.value, cbOf[atom.value]), CachedFlatMapTrace)
       IN  IF ~isOk(atom)
           THEN /\ cfmOut' = Append(cfmOut, atom)
                /\ UNCHANGED << cfmPc, cfmKey, cfmSub, cfmCalls >>
           ELSE IF cachedValues[1]
           THEN /\ cfmOut' = cfmOut \o cachedValues[2]
                /\ UNCHANGED << cfmPc, cfmKey, cfmSub, cfmCalls >>
           ELSE /\ cfmCalls' = Append(cfmCalls, atom.value)
                /\ IF ~isOk(streamAtom)
                   THEN /\ cfmOut' = Append(cfmOut, streamAtom)
                        /\ UNCHANGED << cfmPc, cfmKey, cfmSub >>
                   ELSE IF IsStreamValue(streamAtom.value)
                   THEN /\ cfmPc' = "draining"
                        /\ cfmKey' = key
                        /\ cfmSub' = streamAtom.value.atoms
                        /\ cfmOut' = cfmOut
                   ELSE /\ cfmPc' = "errored"
                        /\ UNCHANGED << cfmKey, cfmSub, cfmOut >>
    /\ UNCHANGED << flatSrc, cbOf, keyFn, cache, cfmValues, fmPos, fmPc, fmSub, fmOut >>
    /\ UNCHANGED flatOthers

\* toArray receives the next atom of the sub-stream.
CfmDrain ==
    /\ cfmPc = "draining"
    /\ ~Drained(cfmSub)
    /\ cfmValues' = Append(cfmValues, Head(cfmSub))
    /\ cfmSub' = Tail(cfmSub)
    /\ UNCHANGED << flatSrc, cbOf, keyFn, cache, cfmPos, cfmPc, cfmKey, cfmCalls,
                    cfmOut, fmPos, fmPc, fmSub, fmOut >>
    /\ UNCHANGED flatOthers

\* The sub-stream ends: toArray resolves, the array is stored and yielded.
CfmStore ==
    /\ cfmPc = "draining"
    /\ Drained(cfmSub)
    /\ cache' = CacheSet(cache, cfmKey, cfmValues)
    /\ cfmOut' = cfmOut \o cfmValues
    /\ cfmValues' = << >>
    /\ cfmKey' = 0
    /\ cfmPc' = "next"
    /\ UNCHANGED << flatSrc, cbOf, keyFn, cfmPos, cfmSub, cfmCalls, fmPos, fmPc,
                    fmSub, fmOut >>
    /\ UNCHANGED flatOthers

\* Upstream ends.
CfmEnd ==
    /\ cfmPc = "next"
    /\ cfmPos = Len(flatSrc)
    /\ cfmPc' = "end"
    /\ UNCHANGED << flatSrc, cbOf, keyFn, cache, cfmPos, cfmKey, cfmSub, cfmValues,
                    cfmCalls, cfmOut, fmPos, fmPc, fmSub, fmOut >>
    /\ UNCHANGED flatOthers

\* flatMap (flatOp) receives the next upstream atom: pass a rejected atom
\* on, or invoke the callback; emit the exception of a failed callback,
\* else start yielding the returned stream.  When what the callback
\* returned is no stream, `yield* stream` throws inside the generator: the
\* stream is destroyed with that error.
FmNext ==
    /\ fmPc = "next"
    /\ fmPos < Len(flatSrc)
    /\ fmPos' = fmPos + 1
    /\ LET atom == flatSrc[fmPos + 1]
           streamAtom == run(CallbackOutcome(atom.value, cbOf[atom.value]), FlatMapTrace)
       IN  IF ~isOk(atom)
           THEN /\ fmOut' = Append(fmOut, atom)
                /\ UNCHANGED << fmPc, fmSub >>
           ELSE IF ~isOk(streamAtom)
           THEN /\ fmOut' = Append(fmOut, streamAtom)
                /\ UNCHANGED << fmPc, fmSub >>
           ELSE IF IsStreamValue(streamAtom.value)
           THEN /\ fmPc' = "sub"
                /\ fmSub' = streamAtom.value.atoms
                /\ fmOut' = fmOut
           ELSE /\ fmPc' = "errored"
                /\ UNCHANGED << fmSub, fmOut >>
    /\ UNCHANGED << flatSrc, cbOf, keyFn, cache, cfmPos, cfmPc, cfmKey, cfmSub,
                    cfmValues, cfmCalls, cfmOut >>
    /\ UNCHANGED flatOthers

\* The rest of the sub-stream is left behind.
FmSubAbandon ==
    /\ fmPc = "sub"
    /\ fmPc' = "next"
    /\ fmSub' = << >>
    /\ UNCHANGED << flatSrc, cbOf, keyFn, cache, cfmPos, cfmPc, cfmKey, cfmSub,
                    cfmValues, cfmCalls, cfmOut, fmPos, fmOut >>
    /\ UNCHANGED flatOthers

\* yield* stream: the next atom of the sub-stream, or its end.
FmSub ==
    /\ fmPc = "sub"
    /\ IF fmSub # << >>
       THEN /\ fmOut' = Append(fmOut, Head(fmSub))
            /\ fmSub' = Tail(fmSub)
            /\ fmPc' = fmPc
       ELSE /\ fmPc' = "next"
            /\ UNCHANGED << fmSub, fmOut >>
    /\ UNCHANGED << flatSrc, cbOf, keyFn, cache, cfmPos, cfmPc, cfmKey, cfmSub,
                    cfmValues, cfmCalls, cfmOut, fmPos >>
    /\ UNCHANGED flatOthers

\* Upstream ends.
FmEnd ==
    /\ fmPc = "next"
    /\ fmPos = Len(flatSrc)
    /\ fmPc' = "end"
    /\ UNCHANGED << flatSrc, cbOf, keyFn, cache, cfmPos, cfmPc, cfmKey, cfmSub,
                    cfmValues, cfmCalls, cfmOut, fmPos, fmSub, fmOut >>
    /\ UNCHANGED flatOthers

FlatNext ==
    \/ CfmNext
    \/ CfmDrain
    \/ CfmStore
    \/ CfmEnd
    \/ FmNext
    \/ FmSub
    \/ FmEnd

-----------------------------------------------------------------------------
(* batch (stream/transforms.ts).  A step is the code between two awaits   *)
(* of the race; upstream answering a call and a timer resolving the       *)
(* heartbeat are steps of their own.                                      *)

\* The i-th upstream atom is Ok(i) or Error(i).
BatchSeqs ==
    UNION {{q \in [1..len -> {Ok(i) : i \in 1..MaxBatchLen} \cup
                             {Error(i) : i \in 1..MaxBatchLen}] :
               \A i \in 1..len : q[i].value = i} : len \in 0..MaxBatchLen}

\* n = 0: no n given; timeout: whether a timeout is given; byBucket: whether
\* a bucketing function is given.
BatchOptionSets ==
    [n : 0..MaxBatchN, timeout : BOOLEAN, yieldRemaining : BOOLEAN,
     yieldEmpty : BOOLEAN, byBucket : BOOLEAN]

\* The promise of the call-th atoms.next().
AtomPromise(call, req) == [call |-> call, req |-> req]

BatchInit ==
    /\ batchSrc \in BatchSeqs
    /\ batchOptions \in BatchOptionSets
    /\ batchCalls = 1
    /\ batchAnswered = 0
    /\ nextAtom = AtomPromise(1, PendingReq)
    /\ heartbeat = "pending"
    /\ batches = << >>
    /\ totalBatchSize = 0
    /\ batchPc = "loop"
    /\ batchTicks = 0
    /\ batchSeen = << >>
    /\ batchOut = << >>

\* Every value goes into the one bucket.
batchFilterDefault(options, v) == "default"

\* options.byBucket ?? (() => "default"), with the bucketing function of
\* the tests.
batchFilter(options, v) ==
    IF options.byBucket THEN (IF v % 2 = 0 THEN "even" ELSE "odd") ELSE "default"

\* The place of the bucket of this key, 0 when there is none.
BucketOf(bs, key) ==
    IF \E i \in DOMAIN bs : bs[i].key = key
    THEN CHOOSE i \in DOMAIN bs : bs[i].key = key
    ELSE 0

\* batch = batches[key] (created when missing); batch.push(value)
BucketPush(bs, key, v) ==
    IF BucketOf(bs, key) = 0
    THEN Append(bs, [key |-> key, items |-> << v >>])
    ELSE [bs EXCEPT ![BucketOf(bs, key)].items = Append(@, v)]

\* array.splice(0, count): what is removed, and what is left.
SpliceHead(items, count) ==
    IF count >= Len(items) THEN items ELSE SubSeq(items, 1, count)

SpliceRest(items, count) ==
    IF count >= Len(items) THEN << >> ELSE SubSeq(items, count + 1, Len(items))

\* Promise.race([heartbeat, nextAtom]): what the loop resumes with.
RaceResult(hb, na) ==
    IF hb = "resolved" THEN "timeout"
    ELSE IF na.req.state = "resolved" THEN "atom"
    ELSE "none"

\* Upstream answers the oldest unanswered call; the answer settles the
\* promise of that call.
BatchUpstreamAnswer ==
    /\ batchPc # "unused"
    /\ batchAnswered < batchCalls
    /\ batchAnswered' = batchAnswered + 1
    /\ nextAtom' = IF nextAtom.call = batchAnswered + 1
                   THEN AtomPromise(nextAtom.call, NextResult(batchSrc, batchAnswered))
                   ELSE nextAtom
    /\ UNCHANGED << batchSrc, batchOptions, batchCalls, heartbeat, batches,
                    totalBatchSize, batchPc, batchTicks, batchSeen, batchOut >>
    /\ UNCHANGED batchOthers

\* The timer of the heartbeat fires; without a timeout there is no timer.
BatchHeartbeat ==
    /\ batchPc \in {"loop", "final"}
    /\ batchOptions.timeout
    /\ heartbeat = "pending"
    /\ batchTicks < MaxTicks \/ batchPc = "final"
    /\ heartbeat' = "resolved"
    /\ batchTicks' = batchTicks + 1
    /\ UNCHANGED << batchSrc, batchOptions, batchCalls, batchAnswered, nextAtom,
                    batches, totalBatchSize, batchPc, batchSeen, batchOut >>
    /\ UNCHANGED batchOthers

\* A filter that lets every bucket through.
TimeoutReadyAlways(b, options) == TRUE

\* batch.length >= (options?.n ?? 1) || options?.yieldRemaining
TimeoutReady(b, options) ==
    Len(b.items) >= (IF options.n = 0 THEN 1 ELSE options.n) \/ options.yieldRemaining

\* ready.reduce((total, batch) => total + batch.length, 0), for the buckets
\* from the i-th on.
RECURSIVE ReadySize(_, _, _)
ReadySize(bs, options, i) ==
    IF i > Len(bs) THEN 0
    ELSE (IF TimeoutReady(bs[i], options) THEN Len(bs[i].items) ELSE 0)
         + ReadySize(bs, options, i + 1)

\* A splice that takes one value.
TimeoutCountOne(b, options) == 1

\* batch.splice(0, options?.n ?? batch.length) of a ready bucket.
TimeoutCount(b, options) == IF options.n = 0 THEN Len(b.items) ELSE options.n

\* What the timeout branch yields for the ready buckets from the i-th on.
RECURSIVE TimeoutEmits(_, _, _)
TimeoutEmits(bs, options, i) ==
    IF i > Len(bs) THEN << >>
    ELSE (IF TimeoutReady(bs[i], options)
          THEN << Ok(SpliceHead(bs[i].items, TimeoutCount(bs[i], options))) >>
          ELSE << >>) \o TimeoutEmits(bs, options, i + 1)

\* The buckets after the timeout branch.
TimeoutBatches(bs, options) ==
    [i \in DOMAIN bs |->
        IF TimeoutReady(bs[i], options)
        THEN [bs[i] EXCEPT !.items = SpliceRest(@, TimeoutCount(bs[i], options))]
        ELSE bs[i]]

\* while (batch.length >= n) yield ok(batch.splice(0, n))
RECURSIVE Chunks(_, _)
Chunks(items, n) ==
    IF Len(items) >= n
    THEN << Ok(SpliceHead(items, n)) >> \o Chunks(SpliceRest(items, n), n)
    ELSE << >>

\* What is left of a bucket after the chunks.
ChunksRest(items, n) == SpliceRest(items, n * (Len(items) \div n))

\* Nothing is yielded after the heartbeat.
FinalEmitsNothing(bs, i) == << >>

\* What the code after the loop yields once the heartbeat has resolved, for
\* the buckets from the i-th on.
RECURSIVE FinalEmits(_, _)
FinalEmits(bs, i) ==
    IF i > Len(bs) THEN << >>
    ELSE (IF Len(bs[i].items) = 0 THEN << >> ELSE << Ok(bs[i].items) >>)
         \o FinalEmits(bs, i + 1)

\* Every bucket that is not empty is yielded, whatever the options.
EndCountEmitsAlways(bs, options, i) == FinalEmits(bs, i)

\* Every atom goes into a bucket.
BatchAcceptsAll(atom) == TRUE

\* isOk(atom): the atom goes into a bucket.
BatchAccepts(atom) == isOk(atom)

\* What the code after the loop yields, without a timeout, for the buckets
\* from the i-th on.
RECURSIVE EndCountEmits(_, _, _)
EndCountEmits(bs, options, i) ==
    IF i > Len(bs) THEN << >>
    ELSE Chunks(bs[i].items, options.n)
         \o (IF Len(ChunksRest(bs[i].items, options.n)) > 0 /\ options.yieldRemaining
             THEN << Ok(ChunksRest(bs[i].items, options.n)) >>
             ELSE << >>)
         \o EndCountEmits(bs, options, i + 1)

\* The race resumes with the result of nextAtom: put an Ok value into its
\* bucket and yield the bucket when it has n values, yield any other atom at
\* once, call atoms.next() again; when the result says done, leave the loop
\* and go through the code after it up to its await.
BatchAtom ==
    /\ batchPc = "loop"
    /\ RaceResult(heartbeat, nextAtom) = "atom"
    /\ batchCalls' = batchCalls + 1
    /\ nextAtom' = AtomPromise(batchCalls + 1, PendingReq)
    /\ LET result == nextAtom.req
           atom == result.value
           key == batchFilter(batchOptions, atom.value)
           pushed == BucketPush(batches, key, atom.value)
           at == BucketOf(pushed, key)
       IN  IF result.done
           THEN /\ UNCHANGED << batchSeen, totalBatchSize >>
                /\ IF batchOptions.timeout /\ (totalBatchSize > 0 \/ batchOptions.yieldEmpty)
                   THEN /\ batchPc' = "final"
                        /\ UNCHANGED << batches, batchOut >>
                   ELSE IF batchOptions.n # 0 /\ totalBatchSize > 0
                   THEN /\ batchPc' = "done"
                        /\ batchOut' = batchOut \o EndCountEmits(batches, batchOptions, 1)
                        /\ batches' = [i \in DOMAIN batches |->
                                         [batches[i] EXCEPT
                                            !.items = ChunksRest(@, batchOptions.n)]]
                   ELSE /\ batchPc' = "done"
                        /\ UNCHANGED << batches, batchOut >>
           ELSE /\ batchSeen' = Append(batchSeen, atom)
                /\ batchPc' = batchPc
                /\ IF BatchAccepts(atom)
                   THEN IF batchOptions.n # 0 /\ Len(pushed[at].items) >= batchOptions.n
                        THEN /\ batchOut' = Append(batchOut,
                                    Ok(SpliceHead(pushed[at].items, batchOptions.n)))
                             /\ batches' = [pushed EXCEPT
                                    ![at].items = SpliceRest(@, batchOptions.n)]
                             /\ totalBatchSize' = totalBatchSize + 1 - batchOptions.n
                        ELSE /\ batches' = pushed
                             /\ totalBatchSize' = totalBatchSize + 1
                             /\ batchOut' = batchOut
                   ELSE /\ batchOut' = Append(batchOut, atom)
                        /\ UNCHANGED << batches, totalBatchSize >>
    /\ UNCHANGED << batchSrc, batchOptions, batchAnswered, heartbeat, batchTicks >>
    /\ UNCHANGED batchOthers

\* The timeout branch, and the new heartbeat.
BatchTimeoutBranch ==
    /\ batchPc = "loop"
    /\ RaceResult(heartbeat, nextAtom) = "timeout"
    /\ IF ReadySize(batches, batchOptions, 1) = 0
       THEN /\ batchOut' = IF batchOptions.yieldEmpty
                           THEN Append(batchOut, Ok(<< >>))
                           ELSE batchOut
            /\ UNCHANGED << batches, totalBatchSize >>
       ELSE /\ batchOut' = batchOut \o TimeoutEmits(batches, batchOptions, 1)
            /\ batches' = TimeoutBatches(batches, batchOptions)
            /\ totalBatchSize' = totalBatchSize - ReadySize(batches, batchOptions, 1)
                                 + ReadySize(TimeoutBatches(batches, batchOptions),
                                             batchOptions, 1)
    /\ heartbeat' = "pending"
    /\ UNCHANGED << batchSrc, batchOptions, batchAnswered, batchPc, batchTicks, batchSeen >>
    /\ UNCHANGED batchOthers

\* The timeout branch with a new call of atoms.next() after it.
BatchTimeoutRepull ==
    /\ BatchTimeoutBranch
    /\ batchCalls' = batchCalls + 1
    /\ nextAtom' = AtomPromise(batchCalls + 1, PendingReq)

\* The race resumes with "timeout": nextAtom is left as it is.
BatchTimeout ==
    /\ BatchTimeoutBranch
    /\ UNCHANGED << batchCalls, nextAtom >>

\* The heartbeat awaited after the loop has resolved: yield every bucket
\* that is not empty, or the last empty array.
BatchFinal ==
    /\ batchPc = "final"
    /\ heartbeat = "resolved"
    /\ batchPc' = "done"
    /\ batchOut' = IF totalBatchSize > 0 THEN batchOut \o FinalEmits(batches, 1)
                   ELSE IF batchOptions.yieldEmpty THEN Append(batchOut, Ok(<< >>))
                   ELSE batchOut
    /\ UNCHANGED << batchSrc, batchOptions, batchCalls, batchAnswered, nextAtom,
                    heartbeat, batches, totalBatchSize, batchTicks, batchSeen >>
    /\ UNCHANGED batchOthers

BatchNext ==
    \/ BatchUpstreamAnswer
    \/ BatchHeartbeat
    \/ BatchAtom
    \/ BatchTimeout
    \/ BatchFinal

-----------------------------------------------------------------------------
(* handler and run (handler.ts), called once with a callback and a trace. *)
(* A callback that returns a promise is the callback that returns or      *)
(* throws what the promise settles with: run awaits it inside its try.    *)

HandlerKinds == 1..5

\* What the callback does with the value v: return it plain, return an
\* atom of one of the three kinds, or throw it.
HandlerOutcome(kind, v) ==
    CASE kind = 1 -> Returns(Plain(v))
      [] kind = 2 -> Returns(Ok(v))
      [] kind = 3 -> Returns(Error(v))
      [] kind = 4 -> Returns(Exception(v, << "up" >>))
      [] OTHER    -> Throws(v)

HandlerTraces == {<< >>, << "map" >>, << "map", "filter" >>}

HandlerInit ==
    /\ hKind \in HandlerKinds
    /\ hValue \in 0..MaxHandlerValue
    /\ hTrace \in HandlerTraces
    /\ hPc = "called"
    /\ hRunResult = NoAtom
    /\ hResult = NoAtom

\* The promises of run(cb, trace) and of handler(cb, trace) resolve.
HandlerReturn ==
    /\ hPc = "called"
    /\ hPc' = "returned"
    /\ hRunResult' = run(HandlerOutcome(hKind, hValue), hTrace)
    /\ hResult' = handler(HandlerOutcome(hKind, hValue), hTrace)
    /\ UNCHANGED << hKind, hValue, hTrace >>
    /\ UNCHANGED handlerOthers

HandlerNext == HandlerReturn

-----------------------------------------------------------------------------
(* One stage made by consume (stream/transforms.ts, higher-order.ts): map, *)
(* filter, take, drop or otherwise.  A step is what the generator does     *)
(* for one upstream atom.  The generator is wrapped by Readable.from: when *)
(* it throws, the stream is destroyed with the error and the pull of the   *)
(* consumer rejects.                                                       *)

\* The i-th upstream atom is Ok(i) or Error(i).
StageSeqs ==
    UNION {{q \in [1..len -> {Ok(i) : i \in 1..MaxStageLen} \cup
                             {Error(i) : i \in 1..MaxStageLen}] :
               \A i \in 1..len : q[i].value = i} : len \in 0..MaxStageLen}

StageKinds == 1..4

\* What the callback does with the value v: return a truthy plain value,
\* return the falsy plain value 0, return an Error atom, or throw.
StageOutcome(kind, v) ==
    CASE kind = 1 -> Returns(Plain(v + 10))
      [] kind = 2 -> Returns(Plain(0))
      [] kind = 3 -> Returns(Error(v + 20))
      [] OTHER    -> Throws(v + 30)

MapTrace == AddTrace(AddTrace(NewTrace, "map"), "consume").stackTrace

FilterTrace == AddTrace(AddTrace(NewTrace, "filter"), "consume").stackTrace

\* What the stream given to otherwise, or returned by its callback, holds.
OtherwiseAtoms == << Ok(9), Error(8) >>

\* What the callback given to otherwise throws.
OtherwiseThrown == 7

StageInit ==
    /\ stSrc \in StageSeqs
    /\ \/ /\ stKind \in {"map", "filter"}
          /\ stCb \in [DOMAIN stSrc -> StageKinds]
          /\ stN = 0
          /\ stAtoms = FALSE
          /\ stOther = "none"
       \/ /\ stKind \in {"take", "drop"}
          /\ stCb = << >>
          /\ stN \in 0..MaxStageN
          /\ stAtoms \in BOOLEAN
          /\ stOther = "none"
       \/ /\ stKind = "otherwise"
          /\ stCb = << >>
          /\ stN = 0
          /\ stAtoms = FALSE
          /\ stOther \in {"stream", "callback", "throwing"}
    /\ stPos = 0
    /\ stCount = 0
    /\ stPc = "next"
    /\ stCalls = << >>
    /\ stOut = << >>

\* `filter.value` as a condition.
Truthy(x) == x # 0

\* The Error object made for a condition that gave no Ok atom, told apart
\* by its detail.
FilterError(detail) == 100 + detail.value

\* map receives the next upstream atom.
MapStep ==
    /\ stKind = "map"
    /\ stPc = "next"
    /\ stPos < Len(stSrc)
    /\ stPos' = stPos + 1
    /\ LET atom == stSrc[stPos + 1]
       IN  IF isOk(atom)
           THEN /\ stCalls' = Append(stCalls, stPos + 1)
                /\ stOut' = Append(stOut,
                       handler(StageOutcome(stCb[atom.value], atom.value), MapTrace))
           ELSE /\ stOut' = Append(stOut, atom)
                /\ stCalls' = stCalls
    /\ UNCHANGED << stKind, stSrc, stCb, stN, stAtoms, stOther, stCount, stPc >>
    /\ UNCHANGED stageOthers

\* filter receives the next upstream atom: an atom that is not Ok is
\* yielded, and the condition is run on the value of the atom whatever the
\* atom is.
FilterStep ==
    /\ stKind = "filter"
    /\ stPc = "next"
    /\ stPos < Len(stSrc)
    /\ stPos' = stPos + 1
    /\ stCalls' = Append(stCalls, stPos + 1)
    /\ LET atom == stSrc[stPos + 1]
           passed == IF ~isOk(atom) THEN << atom >> ELSE << >>
           filter == handler(StageOutcome(stCb[atom.value], atom.value), FilterTrace)
       IN  stOut' = stOut \o passed \o
                    (IF isOk(filter) /\ Truthy(filter.value) THEN << atom >>
                     ELSE IF ~isOk(filter)
                     THEN << Exception(FilterError(filter), FilterTrace) >>
                     ELSE << >>)
    /\ UNCHANGED << stKind, stSrc, stCb, stN, stAtoms, stOther, stCount, stPc >>
    /\ UNCHANGED stageOthers

\* take receives the next upstream atom.
TakeStep ==
    /\ stKind = "take"
    /\ stPc = "next"
    /\ stN > 0
    /\ stPos < Len(stSrc)
    /\ stPos' = stPos + 1
    /\ LET atom == stSrc[stPos + 1]
       IN  stOut' = IF isOk(atom) \/ stAtoms THEN Append(stOut, atom) ELSE stOut
    /\ stCount' = stCount + 1
    /\ stPc' = IF stCount + 1 >= stN THEN "ended" ELSE "next"
    /\ UNCHANGED << stKind, stSrc, stCb, stN, stAtoms, stOther, stCalls >>
    /\ UNCHANGED stageOthers

\* drop receives the next upstream atom.
DropStep ==
    /\ stKind = "drop"
    /\ stPc = "next"
    /\ stPos < Len(stSrc)
    /\ stPos' = stPos + 1
    /\ LET atom == stSrc[stPos + 1]
       IN  IF ~stAtoms /\ ~isOk(atom)
           THEN UNCHANGED << stOut, stCount >>
           ELSE /\ stOut' = IF stCount >= stN THEN Append(stOut, atom) ELSE stOut
                /\ stCount' = stCount + 1
    /\ UNCHANGED << stKind, stSrc, stCb, stN, stAtoms, stOther, stPc, stCalls >>
    /\ UNCHANGED stageOthers

\* otherwise receives the next upstream atom.
OtherwiseStep ==
    /\ stKind = "otherwise"
    /\ stPc = "next"
    /\ stPos < Len(stSrc)
    /\ stPos' = stPos + 1
    /\ stCount' = stCount + 1
    /\ stOut' = Append(stOut, stSrc[stPos + 1])
    /\ UNCHANGED << stKind, stSrc, stCb, stN, stAtoms, stOther, stPc, stCalls >>
    /\ UNCHANGED stageOthers

\* Upstream of otherwise ends: when nothing came, the given stream is
\* yielded, or the given callback is called, where it stands, and the
\* stream it returns is yielded.
OtherwiseEnd ==
    /\ stKind = "otherwise"
    /\ stPc = "next"
    /\ stPos = Len(stSrc)
    /\ IF stCount = 0 /\ stOther = "throwing"
       THEN /\ stPc' = "errored"
            /\ stOut' = stOut
       ELSE /\ stPc' = "ended"
            /\ stOut' = IF stCount = 0 THEN stOut \o OtherwiseAtoms ELSE stOut
    /\ UNCHANGED << stKind, stSrc, stCb, stN, stAtoms, stOther, stPos, stCount, stCalls >>
    /\ UNCHANGED stageOthers

\* Upstream of map, filter, take or drop ends, or take was given an n that
\* is not positive.
StageEnd ==
    /\ stKind \in {"map", "filter", "take", "drop"}
    /\ stPc = "next"
    /\ stPos = Len(stSrc) \/ (stKind = "take" /\ stN <= 0)
    /\ stPc' = "ended"
    /\ UNCHANGED << stKind, stSrc, stCb, stN, stAtoms, stOther, stPos, stCount,
                    stCalls, stOut >>
    /\ UNCHANGED stageOthers

StageNext ==
    \/ MapStep
    \/ FilterStep
    \/ TakeStep
    \/ DropStep
    \/ OtherwiseStep
    \/ OtherwiseEnd
    \/ StageEnd

-----------------------------------------------------------------------------
(* The traces of the streams that transforms derive from one another      *)
(* (stream/base.ts trace and getTrace, stream/transforms.ts consume).     *)
(* A Stream object holds stackTrace and traceComplete; a transform called *)
(* on it calls its trace(), which may push onto that very stackTrace.     *)

\* map and filter call this.trace(name) and then this.consume; otherwise
\* calls this.consume only; bufferedMap calls this.trace(name) and returns
\* Stream.fromNext(...).
TraceKinds == {"map", "filter", "bufferedMap", "otherwise"}

\* A Stream object: its trace fields, the stream it was derived from (0:
\* none), the transform that made it, the trace that transform keeps for
\* the Exceptions it captures, and its stackTrace when it was made.
StreamObject(trace, parent, kind, captured) ==
    [trace |-> trace, parent |-> parent, kind |-> kind, captured |-> captured,
     born |-> trace.stackTrace]

\* The source stream, made by `new Stream(...)`.
TraceInit == trStreams = << StreamObject(NewTrace, 0, "from", << >>) >>

\* trace(name) of the transform itself, on the stream it is called on.
OwnTrace(t, kind) == IF kind = "otherwise" THEN t ELSE AddTrace(t, kind)

\* The transform `kind` is called on the stream p.
Derive(p, kind) ==
    /\ Len(trStreams) < MaxStreams
    /\ LET own == OwnTrace(trStreams[p].trace, kind)
           consumed == IF kind = "bufferedMap" THEN own ELSE AddTrace(own, "consume")
           child == IF kind = "bufferedMap"
                    THEN StreamObject(NewTrace, p, kind, own.stackTrace)
                    ELSE StreamObject([stackTrace |-> consumed.stackTrace,
                                       traceComplete |-> FALSE],
                                      p, kind,
                                      IF kind = "otherwise" THEN << >>
                                      ELSE own.stackTrace)
       IN  trStreams' = Append([trStreams EXCEPT ![p].trace = consumed], child)
    /\ UNCHANGED traceOthers

TraceNext == \E p \in 1..MaxStreams, kind \in TraceKinds :
                 p \in DOMAIN trStreams /\ Derive(p, kind)

-----------------------------------------------------------------------------
(* fromNext, and fromCallback built on it through fromPromise              *)
(* (stream/base.ts, util.ts createNodeCallback).                           *)

\* What a call of next does: return a plain value, return an Error atom,
\* throw (or reject), or return StreamEnd.
NextKinds == 1..4

StreamEnd == [kind |-> "end", value |-> NoAtom]

ScriptOutcome(kind, call) ==
    CASE kind = 1 -> Returns(Plain(call))
      [] kind = 2 -> Returns(Error(call))
      [] kind = 3 -> Throws(call)
      [] OTHER    -> StreamEnd

\* The arguments a node-style callback is called with: 0 stands for a
\* falsy value (null, undefined, 0, "", false).
CallbackArgs == {0, 1}

FromNextInit ==
    /\ \/ /\ fnMode = "script"
          /\ fnScript \in UNION {[1..n -> NextKinds] : n \in 0..MaxNextCalls}
       \/ /\ fnMode = "callback"
          /\ fnScript = << >>
    /\ fnCbCalled = FALSE
    /\ fnPromise = NoAtom
    /\ fnCalls = 0
    /\ fnPc = "idle"
    /\ fnOut = << >>

\* createNodeCallback's next(err, value).
NodeCallbackResolves(promise, err, value) ==
    IF Truthy(err) THEN Error(err)
    ELSE IF Truthy(value) THEN Ok(value)
    ELSE promise

\* The function given to fromCallback calls the callback it was handed.
NodeCallback(err, value) ==
    /\ fnMode = "callback"
    /\ ~fnCbCalled
    /\ fnCbCalled' = TRUE
    /\ fnPromise' = NodeCallbackResolves(fnPromise, err, value)
    /\ UNCHANGED << fnMode, fnScript, fnCalls, fnPc, fnOut >>
    /\ UNCHANGED fromNextOthers

\* The consumer wants an atom: read() calls next.
FromNextRead ==
    /\ fnPc = "idle"
    /\ fnPc' = "reading"
    /\ fnCalls' = fnCalls + 1
    /\ UNCHANGED << fnMode, fnScript, fnCbCalled, fnPromise, fnOut >>
    /\ UNCHANGED fromNextOthers

\* The promise of the current call of next has settled.  fromPromise's
\* next awaits the promise on its first call and returns StreamEnd on
\* every later one.
NextSettled ==
    fnMode = "callback" /\ fnCalls = 1 => fnPromise # NoAtom

NextOutcome ==
    IF fnMode = "script"
    THEN IF fnCalls \in DOMAIN fnScript
         THEN ScriptOutcome(fnScript[fnCalls], fnCalls)
         ELSE StreamEnd
    ELSE IF fnCalls = 1 THEN Returns(fnPromise) ELSE StreamEnd

\* A read() that ends the stream when next throws.
ReadPushesEndOnThrow(outcome) ==
    CASE outcome.kind = "return" -> << normalise(outcome.value) >>
      [] OTHER                   -> << >>

\* What read() pushes for the outcome of next: nothing stands for
\* push(null).
ReadPushes(outcome) ==
    CASE outcome.kind = "return" -> << normalise(outcome.value) >>
      [] outcome.kind = "throw"  -> << Exception(outcome.value, << >>) >>
      [] OTHER                   -> << >>

\* The await in read() is over: push what next gave.
FromNextSettle ==
    /\ fnPc = "reading"
    /\ NextSettled
    /\ fnOut' = fnOut \o ReadPushes(NextOutcome)
    /\ fnPc' = IF ReadPushes(NextOutcome) = << >> THEN "ended" ELSE "idle"
    /\ UNCHANGED << fnMode, fnScript, fnCbCalled, fnPromise, fnCalls >>
    /\ UNCHANGED fromNextOthers

FromNextNext ==
    \/ \E err, value \in CallbackArgs : NodeCallback(err, value)
    \/ FromNextRead
    \/ FromNextSettle

-----------------------------------------------------------------------------
(* flatMap as a function of its upstream (stream/higher-order.ts flatOp,   *)
(* flatMapAtom, flatMap), applied to two upstreams and to their            *)
(* concatenation.                                                          *)

\* What a stream delivers: its atoms, and whether it then broke instead of
\* ending.
StreamResult(atoms, errored) == [atoms |-> atoms, errored |-> errored]

\* Reading one stream after the other: nothing follows a stream that broke.
ConcatStreams(a, b) ==
    IF a.errored THEN a ELSE StreamResult(a.atoms \o b.atoms, b.errored)

\* The body of flatOp's loop for one upstream atom.
FlatOpAtom(atom, cb) ==
    IF ~isOk(atom) THEN StreamResult(<< atom >>, FALSE)
    ELSE LET streamAtom == run(CallbackOutcome(atom.value, cb[atom.value]), FlatMapTrace)
         IN  IF ~isOk(streamAtom) THEN StreamResult(<< streamAtom >>, FALSE)
             ELSE IF IsStreamValue(streamAtom.value)
             THEN StreamResult(streamAtom.value.atoms, FALSE)
             ELSE StreamResult(<< >>, TRUE)

\* A flatMap that stops after its first upstream atom.
FlatMapRunFirstOnly(src, cb) ==
    IF src = << >> THEN StreamResult(<< >>, FALSE) ELSE FlatOpAtom(Head(src), cb)

\* flatOp's loop over the upstream: it goes on with the next atom unless
\* the generator threw.
RECURSIVE FlatMapRun(_, _)
FlatMapRun(src, cb) ==
    IF src = << >> THEN StreamResult(<< >>, FALSE)
    ELSE LET first == FlatOpAtom(Head(src), cb)
         IN  IF first.errored THEN first
             ELSE LET rest == FlatMapRun(Tail(src), cb)
                  IN  StreamResult(first.atoms \o rest.atoms, rest.errored)

ConcatInit ==
    /\ catXs \in UNION {[1..n -> FlatItems] : n \in 0..MaxCatLen}
    /\ catYs \in UNION {[1..n -> FlatItems] : n \in 0..MaxCatLen}
    /\ catCb \in Callbacks
    /\ catPc = "start"
    /\ catWhole = NoAtom
    /\ catParts = NoAtom

\* Both pipelines are run to their end.
ConcatApply ==
    /\ catPc = "start"
    /\ catPc' = "done"
    /\ catWhole' = FlatMapRun(catXs \o catYs, catCb)
    /\ catParts' = ConcatStreams(FlatMapRun(catXs, catCb), FlatMapRun(catYs, catCb))
    /\ UNCHANGED << catXs, catYs, catCb >>
    /\ UNCHANGED concatOthers

ConcatNext == ConcatApply

-----------------------------------------------------------------------------
(* A pipeline of two stages out of map, filter, flatMap and bufferedMap.   *)
(* Every atom is followed through the pipeline together with the index of  *)
(* the source atom it stems from.  A stage receives the next atom of the   *)
(* stage before it one at a time, as its for-await loop does; a            *)
(* bufferedMap stage keeps its pending results in its buffer, where the    *)
(* callbacks complete in any order.                                        *)

PipeStageIds == {1, 2}

PipeKinds == {"map", "filter", "flatMap", "bufferedMap"}

PipeItem(atom, origin) == [atom |-> atom, origin |-> origin]

PipeSeqs ==
    UNION {{[i \in 1..n |-> IF i \in oks THEN Ok(i) ELSE Error(i)] :
               oks \in SUBSET (1..n)} : n \in 0..MaxPipeLen}

PipeInit ==
    /\ plSrc \in PipeSeqs
    /\ plStages \in [PipeStageIds -> PipeKinds]
    /\ plCb \in [PipeStageIds -> [DOMAIN plSrc -> StageKinds]]
    /\ plIn = [k \in PipeStageIds |-> 0]
    /\ plBuf = [k \in PipeStageIds |-> << >>]
    /\ plOut = [k \in PipeStageIds |-> << >>]

\* What stage k reads from: the source, or the stage before it.
PipeInput(k) ==
    IF k = 1 THEN [i \in DOMAIN plSrc |-> PipeItem(plSrc[i], i)] ELSE plOut[k - 1]

\* The trace stage k captures: a stream made by bufferedMap starts with an
\* empty trace.
RECURSIVE PipeTrace(_)
PipeTrace(k) ==
    IF k > 1 /\ plStages[k - 1] # "bufferedMap"
    THEN Append(PipeTrace(k - 1), plStages[k])
    ELSE << plStages[k] >>

\* The atoms a stage yields for one atom it receives.
PipeYields(kind, atom, cbKind, trace) ==
    CASE kind = "filter" ->
           LET filter == handler(StageOutcome(cbKind, atom.value), trace)
           IN  (IF ~isOk(atom) THEN << atom >> ELSE << >>) \o
               (IF isOk(filter) /\ Truthy(filter.value) THEN << atom >>
                ELSE IF ~isOk(filter) THEN << Exception(FilterError(filter), trace) >>
                ELSE << >>)
      [] kind = "flatMap" ->
           IF ~isOk(atom) THEN << atom >>
           ELSE LET streamAtom == run(CallbackOutcome(atom.value, cbKind), trace)
                IN  IF ~isOk(streamAtom) THEN << streamAtom >>
                    ELSE streamAtom.value.atoms
      [] OTHER ->
           IF isOk(atom) THEN << handler(StageOutcome(cbKind, atom.value), trace) >>
           ELSE << atom >>

PipeTagged(atoms, origin) == [i \in DOMAIN atoms |-> PipeItem(atoms[i], origin)]

\* A map, filter or flatMap stage receives its next atom and yields.
PipeStep(k) ==
    /\ plStages[k] # "bufferedMap"
    /\ plIn[k] < Len(PipeInput(k))
    /\ LET item == PipeInput(k)[plIn[k] + 1]
       IN  plOut' = [plOut EXCEPT ![k] = @ \o
                       PipeTagged(PipeYields(plStages[k], item.atom,
                                             plCb[k][item.origin], PipeTrace(k)),
                                  item.origin)]
    /\ plIn' = [plIn EXCEPT ![k] = @ + 1]
    /\ UNCHANGED << plSrc, plStages, plCb, plBuf >>
    /\ UNCHANGED pipeOthers

\* The producer of a bufferedMap stage receives its next atom and pushes
\* the promise of its result, settled already for an atom that is not Ok.
PipeBufferPush(k) ==
    /\ plStages[k] = "bufferedMap"
    /\ plIn[k] < Len(PipeInput(k))
    /\ LET item == PipeInput(k)[plIn[k] + 1]
           result == PipeYields("bufferedMap", item.atom, plCb[k][item.origin],
                                PipeTrace(k))[1]
       IN  plBuf' = [plBuf EXCEPT ![k] =
                       Append(@, [item |-> PipeItem(result, item.origin),
                                  settled |-> ~isOk(item.atom)])]
    /\ plIn' = [plIn EXCEPT ![k] = @ + 1]
    /\ UNCHANGED << plSrc, plStages, plCb, plOut >>
    /\ UNCHANGED pipeOthers

\* The callback of a pending result completes.
PipeSettle(k, j) ==
    /\ j \in DOMAIN plBuf[k]
    /\ ~plBuf[k][j].settled
    /\ plBuf' = [plBuf EXCEPT ![k][j].settled = TRUE]
    /\ UNCHANGED << plSrc, plStages, plCb, plIn, plOut >>
    /\ UNCHANGED pipeOthers

\* Taking the newest pending result.
PipeShiftNewest(buf) == Len(buf)

\* buffer.shift(): the oldest pending result.
PipeShift(buf) == 1

\* The consumer of a bufferedMap stage takes a result and awaits it.
PipeBufferDeliver(k) ==
    /\ plBuf[k] # << >>
    /\ LET j == PipeShift(plBuf[k])
       IN  /\ plBuf[k][j].settled
           /\ plOut' = [plOut EXCEPT ![k] = Append(@, plBuf[k][j].item)]
           /\ plBuf' = [plBuf EXCEPT ![k] =
                           SubSeq(@, 1, j - 1) \o SubSeq(@, j + 1, Len(@))]
    /\ UNCHANGED << plSrc, plStages, plCb, plIn >>
    /\ UNCHANGED pipeOthers

PipeNext ==
    \/ \E k \in PipeStageIds : PipeStep(k)
    \/ \E k \in PipeStageIds : PipeBufferPush(k)
    \/ \E k \in PipeStageIds, j \in 1..(3 * MaxPipeLen) : PipeSettle(k, j)
    \/ \E k \in PipeStageIds : PipeBufferDeliver(k)

-----------------------------------------------------------------------------
(* The specifications: one per combinator, the others' state left alone. *)

MergeIdle ==
    /\ outerSrc = << >>
    /\ subLen = [k \in SubIds |-> 0]
    /\ outerPos = 0
    /\ outerStale = 0
    /\ outerReq = NoReq
    /\ outerExhausted = FALSE
    /\ innerPending = << >>
    /\ innerPos = [k \in SubIds |-> 0]
    /\ mergePc = "idle"
    /\ resumeInner = 0
    /\ mergeOut = << >>
    /\ opened = {}
    /\ reportedDone = {}

BufferedMapIdle ==
    /\ bmSrc = << >>
    /\ bmOptions = [maxBufferSize |-> 0, maxBufferPeriod |-> FALSE, delay |-> FALSE]
    /\ bmPulled = 0
    /\ buffer = << >>
    /\ settleOrder = << >>
    /\ itemReadySignal = newSignal(0)
    /\ bufferPulledSignal = newSignal(0)
    /\ periodElapsed = FALSE
    /\ end = FALSE
    /\ producerPc = "idle"
    /\ producerAwaits = 0
    /\ consumerPc = "unused"
    /\ consumerAwaits = 0
    /\ consumerValue = 0
    /\ bmOut = << >>

PusherIdle ==
    /\ queue = << >>
    /\ done = FALSE
    /\ signal = newSignal(0)
    /\ pullPc = "unused"
    /\ retry = RetryLimit
    /\ pushLog = << >>
    /\ delivered = << >>

FlatIdle ==
    /\ flatSrc = << >>
    /\ cbOf = << >>
    /\ keyFn = << >>
    /\ cache = << >>
    /\ cfmPos = 0
    /\ cfmPc = "unused"
    /\ cfmKey = 0
    /\ cfmSub = << >>
    /\ cfmValues = << >>
    /\ cfmCalls = << >>
    /\ cfmOut = << >>
    /\ fmPos = 0
    /\ fmPc = "unused"
    /\ fmSub = << >>
    /\ fmOut = << >>

BatchIdle ==
    /\ batchSrc = << >>
    /\ batchOptions = << >>
    /\ batchCalls = 0
    /\ batchAnswered = 0
    /\ nextAtom = AtomPromise(0, NoReq)
    /\ heartbeat = "unused"
    /\ batches = << >>
    /\ totalBatchSize = 0
    /\ batchPc = "unused"
    /\ batchTicks = 0
    /\ batchSeen = << >>
    /\ batchOut = << >>

HandlerIdle ==
    /\ hKind = 0
    /\ hValue = 0
    /\ hTrace = << >>
    /\ hPc = "unused"
    /\ hRunResult = NoAtom
    /\ hResult = NoAtom

StageIdle ==
    /\ stKind = "unused"
    /\ stSrc = << >>
    /\ stCb = << >>
    /\ stN = 0
    /\ stAtoms = FALSE
    /\ stOther = "none"
    /\ stPos = 0
    /\ stCount = 0
    /\ stPc = "unused"
    /\ stCalls = << >>
    /\ stOut = << >>

TraceIdle ==
    trStreams = << >>

FromNextIdle ==
    /\ fnMode = "unused"
    /\ fnScript = << >>
    /\ fnCbCalled = FALSE
    /\ fnPromise = NoAtom
    /\ fnCalls = 0
    /\ fnPc = "unused"
    /\ fnOut = << >>

ConcatIdle ==
    /\ catXs = << >>
    /\ catYs = << >>
    /\ catCb = << >>
    /\ catPc = "unused"
    /\ catWhole = NoAtom
    /\ catParts = NoAtom

PipeIdle ==
    /\ plSrc = << >>
    /\ plStages = << >>
    /\ plCb = << >>
    /\ plIn = << >>
    /\ plBuf = << >>
    /\ plOut = << >>

InitMerge == MergeInit /\ BufferedMapIdle /\ PusherIdle /\ FlatIdle /\ BatchIdle /\ HandlerIdle /\ StageIdle /\ TraceIdle /\ FromNextIdle /\ ConcatIdle /\ PipeIdle

SpecMerge == InitMerge /\ [][MergeNext]_vars

\* The consumer keeps pulling and every stream answers its next() calls.
SpecMergeFair == SpecMerge /\ WF_vars(MergeNext)

InitBufferedMap == BufferedMapInit /\ MergeIdle /\ PusherIdle /\ FlatIdle /\ BatchIdle /\ HandlerIdle /\ StageIdle /\ TraceIdle /\ FromNextIdle /\ ConcatIdle /\ PipeIdle

SpecBufferedMap == InitBufferedMap /\ [][BufferedMapNext]_vars

InitPusher == PusherInit /\ MergeIdle /\ BufferedMapIdle /\ FlatIdle /\ BatchIdle /\ HandlerIdle /\ StageIdle /\ TraceIdle /\ FromNextIdle /\ ConcatIdle /\ PipeIdle

SpecPusher == InitPusher /\ [][PusherNextStep]_vars

InitFlat == FlatInit /\ MergeIdle /\ BufferedMapIdle /\ PusherIdle /\ BatchIdle /\ HandlerIdle /\ StageIdle /\ TraceIdle /\ FromNextIdle /\ ConcatIdle /\ PipeIdle

SpecFlat == InitFlat /\ [][FlatNext]_vars

InitBatch == BatchInit /\ MergeIdle /\ BufferedMapIdle /\ PusherIdle /\ FlatIdle /\ HandlerIdle /\ StageIdle /\ TraceIdle /\ FromNextIdle /\ ConcatIdle /\ PipeIdle

SpecBatch == InitBatch /\ [][BatchNext]_vars

InitHandler ==
    /\ HandlerInit
    /\ MergeIdle /\ BufferedMapIdle /\ PusherIdle /\ FlatIdle /\ BatchIdle /\ StageIdle /\ TraceIdle /\ FromNextIdle /\ ConcatIdle /\ PipeIdle

SpecHandler == InitHandler /\ [][HandlerNext]_vars

InitStage ==
    /\ StageInit
    /\ MergeIdle /\ BufferedMapIdle /\ PusherIdle /\ FlatIdle /\ BatchIdle /\ HandlerIdle /\ TraceIdle /\ FromNextIdle /\ ConcatIdle /\ PipeIdle

SpecStage == InitStage /\ [][StageNext]_vars

\* The consumer keeps pulling and the callbacks settle.
SpecStageFair == SpecStage /\ WF_vars(StageNext)

InitTrace ==
    /\ TraceInit
    /\ MergeIdle /\ BufferedMapIdle /\ PusherIdle /\ FlatIdle /\ BatchIdle /\ HandlerIdle /\ StageIdle /\ FromNextIdle /\ ConcatIdle /\ PipeIdle

SpecTrace == InitTrace /\ [][TraceNext]_vars

InitFromNext ==
    /\ FromNextInit
    /\ MergeIdle /\ BufferedMapIdle /\ PusherIdle /\ FlatIdle /\ BatchIdle /\ HandlerIdle /\ StageIdle /\ TraceIdle /\ ConcatIdle /\ PipeIdle

SpecFromNext == InitFromNext /\ [][FromNextNext]_vars

InitConcat ==
    /\ ConcatInit
    /\ MergeIdle /\ BufferedMapIdle /\ PusherIdle /\ FlatIdle /\ BatchIdle /\ HandlerIdle /\ StageIdle /\ TraceIdle /\ FromNextIdle /\ PipeIdle

SpecConcat == InitConcat /\ [][ConcatNext]_vars

InitPipe ==
    /\ PipeInit
    /\ MergeIdle /\ BufferedMapIdle /\ PusherIdle /\ FlatIdle /\ BatchIdle /\ HandlerIdle /\ StageIdle /\ TraceIdle /\ FromNextIdle /\ ConcatIdle

SpecPipe == InitPipe /\ [][PipeNext]_vars

-----------------------------------------------------------------------------
(* Properties of merge. *)

\* The sub-streams the outer stream holds.
OuterStreams == {k \in SubIds : OkStream(k) \in Range(outerSrc)}

\* What merge has to emit: the outer atoms that hold no stream, and every
\* atom of every sub-stream the outer stream holds.
MergeExpected ==
    {a \in Range(outerSrc) : ~IsStream(a)}
        \cup UNION {Range(SubSrc(k, subLen[k])) : k \in OuterStreams}

\* The atoms of sub-stream k in merge's output, in output order.
OutOfSub(k) ==
    LET FromK(a) == a \in Range(SubSrc(k, subLen[k]))
    IN  SelectSeq(mergeOut, FromK)

\* The outer.next() calls that have not been answered yet.
OuterOutstanding == outerStale + (IF outerReq.state = "pending" THEN 1 ELSE 0)

\* C1: merge handles every outer atom exactly once: no atom is emitted
\* twice, and when merge ends every sub-stream of the outer stream has been
\* opened and every plain outer atom and every sub-stream atom has been
\* emitted.
MergeHandlesEveryAtomOnce ==
    /\ \A i, j \in DOMAIN mergeOut : i # j => mergeOut[i] # mergeOut[j]
    /\ mergePc = "end" =>
           /\ opened = OuterStreams
           /\ Range(mergeOut) = MergeExpected

\* C2: at most one next() call is outstanding against the outer stream and
\* against each sub-stream at any time.
MergeOnePullOutstanding ==
    /\ OuterOutstanding <= 1
    /\ \A k \in DOMAIN innerPending :
           innerPending[k].state \in {"pending", "resolved"}

\* C3: merge ends only after the outer stream has reported exhaustion and
\* every discovered sub-stream has reported exhaustion, all its atoms
\* delivered and emitted.
MergeEndsAfterAllExhausted ==
    mergePc = "end" =>
        /\ outerExhausted
        /\ outerPos = Len(outerSrc)
        /\ \A k \in opened :
               /\ k \in reportedDone
               /\ innerPos[k] = subLen[k]
               /\ Range(SubSrc(k, subLen[k])) \subseteq Range(mergeOut)

\* Merge has ended after draining two non-empty sub-streams.
MergeEndsAfterAllExhaustedWitness ==
    /\ mergePc = "end"
    /\ opened = SubIds
    /\ \A k \in SubIds : subLen[k] = MaxSubLen

\* C4: the atoms of each sub-stream appear in merge's output in the order
\* the sub-stream produced them.
MergeKeepsSubOrder ==
    \A k \in SubIds : IsPrefix(OutOfSub(k), SubSrc(k, subLen[k]))

\* The output interleaves two sub-streams: an atom of sub-stream 2 lies
\* between two atoms of sub-stream 1.
MergeKeepsSubOrderWitness ==
    \E i, j, l \in DOMAIN mergeOut :
        /\ i < j /\ j < l
        /\ mergeOut[i] = SubAtom(1, 1)
        /\ mergeOut[j] \in Range(SubSrc(2, subLen[2]))
        /\ mergeOut[l] = SubAtom(1, 2)

-----------------------------------------------------------------------------
(* Properties of bufferedMap. *)

\* One result per upstream atom, in upstream order.
BmExpected == [i \in 1..Len(bmSrc) |-> BmResult(bmSrc[i])]

\* C5: bufferedMap delivers the result for the i-th upstream atom as its i-th
\* atom, and when it ends it has delivered exactly one atom per upstream
\* atom, whatever the order in which the callbacks complete and whatever
\* the caps.
BufferedMapKeepsOrderAndCount ==
    /\ IsPrefix(bmOut, BmExpected)
    /\ consumerPc = "ended" => bmOut = BmExpected

\* The stream has ended over a full-length upstream after a later
\* callback completed before an earlier one.
BufferedMapKeepsOrderAndCountWitness ==
    /\ consumerPc = "ended"
    /\ Len(bmSrc) = MaxUpLen
    /\ \E i, j \in DOMAIN settleOrder :
           /\ i < j
           /\ settleOrder[i] > settleOrder[j]
           /\ isOk(bmSrc[settleOrder[i]])
           /\ isOk(bmSrc[settleOrder[j]])

\* C6: with maxBufferSize = B the buffer never holds more than B pending
\* results, and while it holds B the producer has no pull on upstream.
BufferedMapRespectsCap ==
    bmOptions.maxBufferSize # 0 =>
        /\ Len(buffer) <= bmOptions.maxBufferSize
        /\ Len(buffer) = bmOptions.maxBufferSize => producerPc # "pulling"

\* The buffer is full, upstream has more atoms, and the producer waits for
\* a pull.
BufferedMapRespectsCapWitness ==
    /\ bmOptions.maxBufferSize = MaxBufferSize
    /\ Len(buffer) = MaxBufferSize
    /\ producerPc = "waitPulled"
    /\ bmPulled < Len(bmSrc)

-----------------------------------------------------------------------------
(* Properties of fromPusher. *)

RECURSIVE PushedBeforeDone(_)
PushedBeforeDone(log) ==
    IF log = << >> THEN << >>
    ELSE (IF Head(log).afterDone THEN << >> ELSE << normalise(Head(log).value) >>)
             \o PushedBeforeDone(Tail(log))

\* C7: the stream delivers the values pushed before done(), each once and
\* in push order, and it ends only after done() and after delivering all
\* of them.
PusherDeliversPushedValues ==
    /\ IsPrefix(delivered, PushedBeforeDone(pushLog))
    /\ pullPc = "ended" => done /\ delivered = PushedBeforeDone(pushLog)

\* The stream has ended after delivering MaxPushes values, with a pull
\* that was suspended on the way.
PusherDeliversPushedValuesWitness ==
    /\ pullPc = "ended"
    /\ Len(delivered) = MaxPushes
    /\ signal.gen > 0

\* C8: a pull returns a buffered value at once and suspends only when
\* nothing is buffered and done() was not called; a push or done during a
\* suspended pull resolves the signal the pull waits for; a suspended pull
\* is never left waiting with a value buffered or the stream done; and
\* when it resumes it returns the pushed value or the end of the stream.
PusherPullIsWoken ==
    [][ /\ (pullPc = "idle" /\ pullPc' = "suspended") => (queue = << >> /\ ~done)
        /\ (pullPc = "idle" /\ queue # << >> /\ delivered' # delivered) =>
               delivered' = Append(delivered, normalise(Head(queue)))
        /\ (pullPc = "suspended" /\ (queue' # queue \/ done' # done)
               /\ pullPc' = "suspended") => signal'.resolved
        /\ (pullPc' = "suspended" /\ (queue' # << >> \/ done')) => signal'.resolved
        /\ (pullPc = "suspended" /\ pullPc' # "suspended") =>
               \/ /\ queue # << >>
                  /\ delivered' = Append(delivered, normalise(Head(queue)))
                  /\ pullPc' = "idle"
               \/ /\ queue = << >> /\ done
                  /\ delivered' = delivered
                  /\ pullPc' = "ended"
      ]_vars

\* Two pulls were suspended and resumed, the first by a push, the last by
\* done().
PusherPullIsWokenWitness ==
    /\ pullPc = "ended"
    /\ signal.gen >= 2
    /\ delivered # << >>

-----------------------------------------------------------------------------
(* Properties of flatMap and cachedFlatMap. *)

FlatEnded == cfmPc = "end" /\ fmPc = "end"

\* The keys of the Ok atoms of upstream.
FlatKeys == {keyFn[flatSrc[i].value] : i \in {j \in DOMAIN flatSrc : isOk(flatSrc[j])}}

\* How many times the callback was invoked for a value with this key.
CallsForKey(k) == Cardinality({i \in DOMAIN cfmCalls : keyFn[cfmCalls[i]] = k})

\* C9: cachedFlatMap invokes the callback at most once per key, and once the
\* stream has ended, exactly once for every key of an upstream Ok atom.
CachedFlatMapCallsOncePerKey ==
    /\ cfmPc # "unused" => \A k \in FlatKeys : CallsForKey(k) <= 1
    /\ cfmPc = "end" => \A k \in FlatKeys : CallsForKey(k) = 1

\* C10 as stated: once both have ended, cachedFlatMap has yielded the atoms
\* flatMap has yielded for the same upstream and callback.
CachedFlatMapEqualsFlatMap == FlatEnded => cfmOut = fmOut

SameOutcome(a, b) ==
    /\ a.kind = b.kind
    /\ IF a.kind = "throw" THEN a.value = b.value
       ELSE /\ IsStreamValue(a.value) = IsStreamValue(b.value)
            /\ IF IsStreamValue(a.value) THEN a.value.atoms = b.value.atoms
               ELSE a.value = b.value

\* Values with the same key get the same result from the callback.
KeyRespectsCallback ==
    \A v, w \in FlatValues :
        keyFn[v] = keyFn[w] =>
            SameOutcome(CallbackOutcome(v, cbOf[v]), CallbackOutcome(w, cbOf[w]))

\* An exception flatMap captured from the callback, with the trace
\* cachedFlatMap gives it.
Retrace(atom) ==
    IF isException(atom) /\ atom.trace = FlatMapTrace
    THEN Exception(atom.value, CachedFlatMapTrace)
    ELSE atom

\* C10: when values with the same key get the same result from the callback,
\* cachedFlatMap has, once both have ended, yielded the atoms flatMap has
\* yielded, except that an exception captured from the callback carries the
\* trace of cachedFlatMap in place of the trace of flatMap.
CachedFlatMapMatchesFlatMap ==
    (FlatEnded /\ KeyRespectsCallback) =>
        cfmOut = [i \in DOMAIN fmOut |-> Retrace(fmOut[i])]

\* Both have ended after a replay from the cache and a failed callback.
CachedFlatMapMatchesFlatMapWitness ==
    /\ FlatEnded
    /\ KeyRespectsCallback
    /\ Len(cfmCalls) < Cardinality({j \in DOMAIN flatSrc : isOk(flatSrc[j])})
    /\ \E i \in DOMAIN cfmOut : isException(cfmOut[i]) /\ cfmOut[i].trace = CachedFlatMapTrace
    /\ \E i \in DOMAIN cfmOut : isError(cfmOut[i]) /\ cfmOut[i].value > 3

\* What the callback did when it was invoked the i-th time.
CallOutcome(i) == CallbackOutcome(cfmCalls[i], cbOf[cfmCalls[i]])

\* The invocations for the key k that returned a stream.
StreamCalls(k) ==
    {i \in DOMAIN cfmCalls :
        /\ keyFn[cfmCalls[i]] = k
        /\ CallOutcome(i).kind = "return"
        /\ IsStreamValue(CallOutcome(i).value)}

\* The atoms of the first stream the callback returned for the key k.
FirstStream(k) ==
    LET first == CHOOSE i \in StreamCalls(k) : \A j \in StreamCalls(k) : i <= j
    IN  CallOutcome(first).value.atoms

\* C11: every cache entry belongs to a key for which the callback returned a
\* stream, holds all the atoms of that stream, and is not there while the
\* stream of that key is still being drained; a key whose callback only
\* failed has no entry.
CachedFlatMapStoresDrainedOnly ==
    /\ \A k \in DOMAIN cache :
          /\ StreamCalls(k) # {}
          /\ cache[k] = FirstStream(k)
    /\ cfmPc = "draining" => cfmKey \notin DOMAIN cache

\* One key is cached in full and the callback failed for another key.
CachedFlatMapStoresDrainedOnlyWitness ==
    /\ cfmPc = "end"
    /\ \E k \in DOMAIN cache : Len(cache[k]) = 3
    /\ \E i \in DOMAIN cfmCalls :
          CallOutcome(i).kind = "throw" /\ keyFn[cfmCalls[i]] \notin DOMAIN cache

\* An upstream Ok atom arrives whose key has a cache entry.
CacheHit ==
    /\ cfmPc = "next"
    /\ cfmPos < Len(flatSrc)
    /\ isOk(flatSrc[cfmPos + 1])
    /\ keyFn[flatSrc[cfmPos + 1].value] \in DOMAIN cache

\* C12: on a cache hit cachedFlatMap yields exactly the atoms the first
\* stream of that key produced, in order, and no step changes an entry the
\* cache already has.
CachedFlatMapReplaysVerbatim ==
    [][ /\ (CacheHit /\ cfmPos' = cfmPos + 1) =>
              cfmOut' = cfmOut \o FirstStream(keyFn[flatSrc[cfmPos + 1].value])
        /\ \A k \in DOMAIN cache : k \in DOMAIN cache' /\ cache'[k] = cache[k] ]_vars

\* A replay of an entry with an Error and an Exception has happened.
CachedFlatMapReplaysVerbatimWitness ==
    /\ cfmPc = "end"
    /\ Len(cfmCalls) = 1
    /\ Len(flatSrc) = MaxFlatLen
    /\ \A i \in DOMAIN flatSrc : isOk(flatSrc[i])
    /\ Len(cfmOut) = 3 * MaxFlatLen

\* The callback fails for the upstream atom flatMap is about to receive:
\* it throws, or what it returns is an atom and no stream.
FlatMapCallbackFails ==
    /\ fmPc = "next"
    /\ fmPos < Len(flatSrc)
    /\ isOk(flatSrc[fmPos + 1])
    /\ LET outcome == CallbackOutcome(flatSrc[fmPos + 1].value, cbOf[flatSrc[fmPos + 1].value])
       IN  outcome.kind = "throw" \/ ~IsStreamValue(outcome.value)

\* The one atom that stands for the failure.
FlatMapFailureAtom ==
    LET outcome == CallbackOutcome(flatSrc[fmPos + 1].value, cbOf[flatSrc[fmPos + 1].value])
    IN  IF outcome.kind = "throw" THEN Exception(outcome.value, FlatMapTrace)
        ELSE outcome.value

\* C25: when the callback throws or returns an atom that is not Ok in place
\* of a stream, flatMap yields exactly that one atom (the Exception with the
\* trace of the stage for a throw) and goes on with the next upstream atom.
FlatMapFailureEmitsOneAtom ==
    [][ (FlatMapCallbackFails /\ fmPos' = fmPos + 1) =>
          /\ fmOut' = Append(fmOut, FlatMapFailureAtom)
          /\ fmPc' = "next" ]_vars

\* What flatMap yields for the i-th upstream atom.
FlatMapContribution(i) ==
    LET atom == flatSrc[i]
        outcome == CallbackOutcome(atom.value, cbOf[atom.value])
    IN  IF ~isOk(atom) THEN << atom >>
        ELSE IF outcome.kind = "throw" THEN << Exception(outcome.value, FlatMapTrace) >>
        ELSE IF IsStreamValue(outcome.value) THEN outcome.value.atoms
        ELSE << >>

RECURSIVE FlatMapExpected(_)
FlatMapExpected(n) ==
    IF n = 0 THEN << >> ELSE FlatMapExpected(n - 1) \o FlatMapContribution(n)

\* C26: what flatMap has yielded, followed by what is left of the sub-stream
\* it is yielding, is what the upstream atoms received so far stand for, atom
\* by atom in upstream order; and no upstream atom is pulled while atoms of a
\* sub-stream are left.
FlatMapSplicesInPlace ==
    [][ /\ fmPc' \in {"next", "sub", "end"} =>
              fmOut' \o fmSub' = FlatMapExpected(fmPos')
        /\ fmPos' # fmPos => fmSub = << >> /\ fmPc = "next" ]_vars

\* Two sub-streams of three atoms have been yielded around another atom.
FlatMapSplicesInPlaceWitness ==
    /\ fmPc = "end"
    /\ Len(flatSrc) = 3
    /\ Len(fmOut) = 7

-----------------------------------------------------------------------------
(* Properties of batch. *)

BatchInUse == batchPc # "unused"

EmptyArray(atom) == isOk(atom) /\ atom.value = << >>

\* What the step yields.
BatchYielded == SubSeq(batchOut', Len(batchOut) + 1, Len(batchOut'))

\* The loop resumes from the race (and does not wait for it any longer).
BatchAtomStep ==
    batchPc = "loop" /\ RaceResult(heartbeat, nextAtom) = "atom" /\ batchCalls' # batchCalls

BatchTickStep ==
    batchPc = "loop" /\ heartbeat = "resolved" /\ batchAnswered' = batchAnswered

\* The generator returns.
BatchEndStep == batchPc # "done" /\ batchPc' = "done"

\* Only n is given, and upstream holds Ok values only.
CountOnly ==
    /\ batchOptions.n # 0
    /\ ~batchOptions.timeout
    /\ ~batchOptions.byBucket
    /\ \A i \in DOMAIN batchSrc : isOk(batchSrc[i])

\* The j-th run of len upstream values, as an array.
ChunkOfSrc(j, n, len) == Ok([i \in 1..len |-> batchSrc[(j - 1) * n + i].value])

\* The full chunks of n upstream values, and the rest when asked for.
CountOnlyExpected ==
    LET n == batchOptions.n
        m == Len(batchSrc)
    IN  [j \in 1..(m \div n) |-> ChunkOfSrc(j, n, n)]
        \o (IF m % n > 0 /\ batchOptions.yieldRemaining
            THEN << ChunkOfSrc(m \div n + 1, n, m % n) >>
            ELSE << >>)

\* C13: with only n given and one bucket, over m Ok values, batch yields
\* the consecutive full chunks of n values in upstream order, then the
\* rest of fewer than n values if and only if yieldRemaining is set.
BatchCountOnlyChunks ==
    (BatchInUse /\ CountOnly) =>
        /\ IsPrefix(batchOut, CountOnlyExpected)
        /\ batchPc = "done" => batchOut = CountOnlyExpected

\* A full chunk and a rest of one value have been yielded.
BatchCountOnlyChunksWitness ==
    /\ batchPc = "done"
    /\ CountOnly
    /\ batchOptions.n = 2
    /\ batchOut = << Ok(<< 1, 2 >>), Ok(<< 3 >>) >>

\* C14 as stated: when the generator returns, every bucket that is not
\* empty has been yielded then if yieldRemaining is set, and none if it is
\* not.
BatchEndFollowsYieldRemaining ==
    [][ BatchEndStep =>
          \A i \in DOMAIN batches :
             Len(batches[i].items) > 0 =>
                (Ok(batches[i].items) \in Range(BatchYielded)
                    <=> batchOptions.yieldRemaining) ]_vars

\* C14: when the generator returns, every bucket that is not empty has
\* been yielded then if a timeout is given, or if n is given and
\* yieldRemaining is set, and none otherwise.
BatchEndFlush ==
    [][ BatchEndStep =>
          \A i \in DOMAIN batches :
             Len(batches[i].items) > 0 =>
                (Ok(batches[i].items) \in Range(BatchYielded)
                    <=> (batchOptions.timeout
                         \/ (batchOptions.n # 0 /\ batchOptions.yieldRemaining))) ]_vars

\* With a timeout and without yieldRemaining the generator has returned
\* after yielding a bucket of fewer than n values.
BatchEndFlushWitness ==
    /\ batchPc = "done"
    /\ batchOptions.timeout
    /\ ~batchOptions.yieldRemaining
    /\ batchOptions.n = 2
    /\ batchOut # << >>
    /\ \E i \in DOMAIN batches :
          /\ Len(batches[i].items) = 1
          /\ batchOut[Len(batchOut)] = Ok(batches[i].items)

\* With n given every bucket holds fewer than n values between steps.
BucketsBelowN ==
    batchOptions.n # 0 => \A i \in DOMAIN batches : Len(batches[i].items) < batchOptions.n

\* C15 as stated: with n and a timeout, a bucket never holds n values
\* between steps, and a timeout tick yields and empties every bucket that is
\* not empty.
BatchFlushOnCountOrTick ==
    [][ (BatchInUse /\ batchOptions.n # 0 /\ batchOptions.timeout) =>
          /\ BucketsBelowN'
          /\ BatchTickStep =>
                \A i \in DOMAIN batches :
                   /\ batches'[i].items = << >>
                   /\ Len(batches[i].items) > 0 =>
                         Ok(batches[i].items) \in Range(BatchYielded) ]_vars

\* C15: with n and a timeout, a bucket never holds n values between steps;
\* a timeout tick yields and empties every bucket that is not empty when
\* yieldRemaining is set, and leaves the buckets as they are, yielding none
\* of them, when it is not.
BatchFlushOnCountOrTickWithRemaining ==
    [][ (BatchInUse /\ batchOptions.n # 0 /\ batchOptions.timeout) =>
          /\ BucketsBelowN'
          /\ BatchTickStep =>
                IF batchOptions.yieldRemaining
                THEN \A i \in DOMAIN batches :
                        /\ batches'[i].items = << >>
                        /\ Len(batches[i].items) > 0 =>
                              Ok(batches[i].items) \in Range(BatchYielded)
                ELSE /\ batches' = batches
                     /\ \A i \in DOMAIN BatchYielded : EmptyArray(BatchYielded[i]) ]_vars

\* A tick has flushed a bucket of one value while n is 2.
BatchFlushOnCountOrTickWithRemainingWitness ==
    /\ batchPc = "loop"
    /\ batchOptions.n = 2
    /\ batchOptions.timeout
    /\ batchOptions.yieldRemaining
    /\ heartbeat = "pending"
    /\ batchTicks > 0
    /\ batchOut # << >>
    /\ isOk(batchOut[Len(batchOut)])
    /\ Len(batchOut[Len(batchOut)].value) = 1

\* C16: with only a timeout, a timeout tick yields every bucket that is not
\* empty in full as one array and leaves it empty, and a new heartbeat is
\* pending after the tick.
BatchTimeoutOnlyFlush ==
    [][ (BatchInUse /\ batchOptions.n = 0 /\ batchOptions.timeout /\ BatchTickStep) =>
          /\ \A i \in DOMAIN batches :
                /\ batches'[i].items = << >>
                /\ Len(batches[i].items) > 0 =>
                      Ok(batches[i].items) \in Range(BatchYielded)
          /\ heartbeat' = "pending" ]_vars

\* One tick has flushed two buckets of two values each.
BatchTimeoutOnlyFlushWitness ==
    /\ batchPc = "loop"
    /\ batchOptions.n = 0
    /\ batchOptions.timeout
    /\ heartbeat = "pending"
    /\ batchTicks = 1
    /\ batchOut = << Ok(<< 1, 3 >>), Ok(<< 2, 4 >>) >>

\* C17: with yieldEmpty unset batch never yields an empty array.
BatchNoEmptyArrayUnlessYieldEmpty ==
    (BatchInUse /\ ~batchOptions.yieldEmpty) =>
        \A i \in DOMAIN batchOut : ~EmptyArray(batchOut[i])

\* The values in the buckets.
BucketValues(bs) == UNION {Range(bs[i].items) : i \in DOMAIN bs}

\* C18: when the loop receives an atom that is not Ok it yields that atom
\* in the same step and leaves every bucket as it is; no bucket ever holds
\* the value of such an atom.
BatchPassesNonOk ==
    [][ BatchInUse =>
          /\ (BatchAtomStep /\ ~nextAtom.req.done /\ ~isOk(nextAtom.req.value)) =>
                /\ batchOut' = Append(batchOut, nextAtom.req.value)
                /\ batches' = batches
                /\ totalBatchSize' = totalBatchSize
          /\ \A v \in BucketValues(batches') : isOk(batchSrc[v]) ]_vars

\* An Error has been yielded while a bucket holds a value.
BatchPassesNonOkWitness ==
    /\ batchPc = "loop"
    /\ totalBatchSize > 0
    /\ batchOut # << >>
    /\ isError(batchOut[Len(batchOut)])
    /\ \E i \in DOMAIN batches : batches[i].items = << 1 >>

\* C19: the atoms the loop has received are the first atoms of upstream, in
\* order, each once; at most one call of atoms.next() is unanswered; and the
\* loop ends only after it has received them all.
BatchKeepsPendingPull ==
    BatchInUse =>
        /\ IsPrefix(batchSeen, batchSrc)
        /\ batchCalls - batchAnswered <= 1
        /\ batchPc \in {"final", "done"} => batchSeen = batchSrc

\* A tick was handled before the first atom, and every atom has been
\* received afterwards.
BatchKeepsPendingPullWitness ==
    /\ batchPc = "done"
    /\ batchOptions.timeout
    /\ batchOptions.yieldEmpty
    /\ Len(batchSrc) >= 2
    /\ batchSeen = batchSrc
    /\ batchTicks >= 2
    /\ EmptyArray(batchOut[1])

\* The bucket key of an upstream value under the bucketing function.
KeyOfValue(v) == v % 2

\* C20: with byBucket every yielded array holds values of one key only, in
\* upstream order, no value is yielded twice, and with n given no bucket
\* holds n values between steps, whatever the other buckets hold.
BatchBucketsIndependent ==
    (BatchInUse /\ batchOptions.byBucket) =>
        /\ \A i \in DOMAIN batchOut :
              isOk(batchOut[i]) =>
                 \A a, b \in DOMAIN batchOut[i].value :
                    /\ KeyOfValue(batchOut[i].value[a]) = KeyOfValue(batchOut[i].value[b])
                    /\ a < b => batchOut[i].value[a] < batchOut[i].value[b]
        /\ \A i, j \in DOMAIN batchOut :
              (isOk(batchOut[i]) /\ isOk(batchOut[j]) /\ i # j) =>
                 Range(batchOut[i].value) \cap Range(batchOut[j].value) = {}
        /\ BucketsBelowN

\* The odd bucket was flushed at two values while the even one held one,
\* and the even one after it.
BatchBucketsIndependentWitness ==
    /\ batchPc = "done"
    /\ batchOptions.byBucket
    /\ batchOptions.n = 2
    /\ batchOut = << Ok(<< 1, 3 >>), Ok(<< 2, 4 >>) >>

-----------------------------------------------------------------------------
(* Properties of handler and run. *)

\* C23: the promise of the helper resolves to an atom: Ok(value) for a
\* callback that returns a plain value, the returned atom itself for one
\* that returns an atom, Exception(thrown value, trace) with the trace
\* passed in for one that throws; run alone resolves to Ok of what was
\* returned or to that Exception.
HandlerYieldsAtom ==
    hPc = "returned" =>
        /\ hResult = (CASE hKind = 1 -> Ok(hValue)
                        [] hKind = 2 -> Ok(hValue)
                        [] hKind = 3 -> Error(hValue)
                        [] hKind = 4 -> Exception(hValue, << "up" >>)
                        [] OTHER     -> Exception(hValue, hTrace))
        /\ IF hKind = 5 THEN hRunResult = Exception(hValue, hTrace)
           ELSE isOk(hRunResult) /\ hRunResult.value = HandlerOutcome(hKind, hValue).value

\* A throw has become an Exception with a trace of two stages.
HandlerYieldsAtomWitness ==
    /\ hPc = "returned"
    /\ hKind = 5
    /\ isException(hResult)
    /\ hResult.trace = << "map", "filter" >>

-----------------------------------------------------------------------------
(* Properties of a single stage. *)

\* C21 (as stated): a throw of the generator given to consume comes out as
\* an Exception atom, so the stream never errors and no pull of the
\* consumer is ever rejected.
ConsumeNeverRejects == stPc # "errored"

\* C22 (as stated): the callback given to otherwise runs guarded: when it
\* throws, the stage yields one Exception atom and the stream does not break.
OtherwiseCallbackGuarded ==
    [][(/\ stKind = "otherwise"
        /\ stOther = "throwing"
        /\ stPc = "next"
        /\ stPos = Len(stSrc)
        /\ stCount = 0)
       => (/\ stPc' # "errored"
           /\ Len(stOut') = Len(stOut) + 1
           /\ isException(stOut'[Len(stOut')]))]_vars

\* What map owes for the i-th upstream atom.
MapExpected(i) ==
    LET atom == stSrc[i]
    IN  IF ~isOk(atom) THEN atom
        ELSE CASE stCb[i] = 1 -> Ok(i + 10)
               [] stCb[i] = 2 -> Ok(0)
               [] stCb[i] = 3 -> Error(i + 20)
               [] OTHER       -> Exception(i + 30, << "map" >>)

\* C24: map yields one atom per upstream atom, in order; where the callback
\* threw, the atom is an Exception holding what was thrown, and the atoms
\* before and after are what their callbacks gave; the stream never errors,
\* and it ends once the consumer has pulled everything.
MapThrowBecomesException ==
    /\ [](stKind = "map" =>
            /\ stPc # "errored"
            /\ Len(stOut) = stPos
            /\ \A i \in 1..stPos : stOut[i] = MapExpected(i))
    /\ (stKind = "map" ~> (stPc = "ended" /\ stPos = Len(stSrc)))

\* map has ended over three Ok atoms; the callback threw for the second
\* one only, and the output holds the Exception between two Ok atoms.
MapThrowBecomesExceptionWitness ==
    /\ stKind = "map"
    /\ stPc = "ended"
    /\ stSrc = << Ok(1), Ok(2), Ok(3) >>
    /\ stCb = << 1, 4, 1 >>
    /\ stOut = << Ok(11), Exception(32, << "map" >>), Ok(13) >>

\* C27 (as stated, for filter): every upstream atom that is not Ok and has
\* entered filter is in the output of filter exactly once.
FilterPassesNonOkOnce ==
    stKind = "filter" =>
        \A i \in 1..stPos :
            ~isOk(stSrc[i]) =>
                Cardinality({j \in DOMAIN stOut : stOut[j] = stSrc[i]}) = 1

\* C28 (as stated): the callback of a stage is invoked for Ok atoms only.
CallbackOnlyForOk ==
    \A k \in DOMAIN stCalls : isOk(stSrc[stCalls[k]])

-----------------------------------------------------------------------------
(* More properties of bufferedMap. *)

\* The callbacks that were started and have not completed.
InFlight == {i \in 1..bmPulled : isOk(bmSrc[i]) /\ i \notin Range(settleOrder)}

FirstN(q, n) == SubSeq(q, 1, IF n < Len(q) THEN n ELSE Len(q))

\* C37 (as stated): when take(n) has ended it has emitted the first n Ok
\* atoms of upstream, or with atoms: true the first n atoms of upstream.
TakeEmitsFirstN ==
    (stKind = "take" /\ stPc = "ended") =>
        stOut = IF stAtoms THEN FirstN(stSrc, stN)
                ELSE FirstN(SelectSeq(stSrc, isOk), stN)

\* C39 (as stated): the producer never waits for a pull of the consumer
\* while the consumer waits for a new item.
BufferedMapNoMutualWait ==
    ~ /\ producerPc = "waitPulled"
      /\ ~SignalResolved(bufferPulledSignal, producerAwaits)
      /\ consumerPc = "waitItem"
      /\ ~SignalResolved(itemReadySignal, consumerAwaits)

-----------------------------------------------------------------------------
(* More properties of merge. *)

\* C40: over a finite outer stream of finite sub-streams, with a consumer
\* that keeps pulling, merge eventually signals the end of the stream.
MergeEventuallyEnds == <>(mergePc = "end")

\* merge has ended after opening both sub-streams of full length from a
\* full-length outer stream.
MergeEventuallyEndsWitness ==
    /\ mergePc = "end"
    /\ Len(outerSrc) = MaxOuterLen
    /\ opened = SubIds
    /\ \A k \in SubIds : subLen[k] = MaxSubLen /\ k \in reportedDone

-----------------------------------------------------------------------------
(* Properties of the traces. *)

\* Every stream was derived from the one made just before it.
IsChain == \A i \in 2..Len(trStreams) : trStreams[i].parent = i - 1

\* The names of the transforms that lead to the i-th stream of a chain.
ChainNames(i) == [j \in 1..(i - 1) |-> trStreams[j + 1].kind]

\* C32 (as stated): in a chain of transforms, the trace kept by the k-th
\* transform for the Exceptions it captures holds the names of the
\* transforms 1..k, in order.
TraceNamesStagesInOrder ==
    IsChain =>
        \A i \in 2..Len(trStreams) :
            trStreams[i].kind # "otherwise" => trStreams[i].captured = ChainNames(i)

\* The streams on the way from the source to the i-th stream, the source
\* left out.
RECURSIVE PipelineOf(_)
PipelineOf(i) == IF i <= 1 THEN {} ELSE {i} \cup PipelineOf(trStreams[i].parent)

\* The name n belongs to a stream that is not in the pipeline of i, nor
\* derived from i, and to no stream of the pipeline of i.
NameOfSiblingOnly(i, n) ==
    /\ \E j \in 2..Len(trStreams) :
           /\ j \notin PipelineOf(i)
           /\ i \notin PipelineOf(j)
           /\ trStreams[j].kind = n
    /\ \A a \in PipelineOf(i) : trStreams[a].kind # n

\* C33 (as stated): the trace a derived stream is made with, and the trace
\* its transform keeps, hold no name that belongs only to a sibling
\* pipeline.
TraceFreeOfSiblingNames ==
    \A i \in 2..Len(trStreams) :
        \A n \in Range(trStreams[i].born) \cup Range(trStreams[i].captured) :
            ~NameOfSiblingOnly(i, n)

-----------------------------------------------------------------------------
(* Properties of fromNext and fromCallback. *)

\* The calls of next whose outcome read() has seen.
NextCallsSettled == IF fnPc = "reading" THEN fnCalls - 1 ELSE fnCalls

\* What the stream owes for the i-th call of next, when that call did not
\* return StreamEnd.
FromNextExpected(i) ==
    CASE fnScript[i] = 1 -> Ok(i)
      [] fnScript[i] = 2 -> Error(i)
      [] OTHER           -> Exception(i, << >>)

\* C36: fromNext delivers one atom per call of next, in order: the value
\* or atom returned, or Exception(thrown value, []) when the call threw;
\* the stream ends only when a call returns StreamEnd, so calls follow a
\* throwing call.
FromNextThrowBecomesException ==
    fnMode = "script" =>
        /\ Len(fnOut) = (IF fnPc = "ended" THEN NextCallsSettled - 1
                         ELSE NextCallsSettled)
        /\ \A i \in DOMAIN fnOut : fnOut[i] = FromNextExpected(i)
        /\ fnPc = "ended" =>
               (fnCalls \in DOMAIN fnScript => fnScript[fnCalls] = 4)

\* The first call threw, the second returned a value, the third one
\* StreamEnd.
FromNextThrowBecomesExceptionWitness ==
    /\ fnMode = "script"
    /\ fnScript = << 3, 1, 4 >>
    /\ fnPc = "ended"
    /\ fnOut = << Exception(1, << >>), Ok(2) >>

\* C38 (as stated): once the node-style callback has been called, the
\* promise is resolved.
CallbackAlwaysResolves ==
    (fnMode = "callback" /\ fnCbCalled) => fnPromise # NoAtom

-----------------------------------------------------------------------------
(* Properties of flatMap over a concatenation. *)

\* C35: flat-mapping the concatenation of two upstreams delivers what
\* flat-mapping each of them and concatenating the results delivers.
FlatMapDistributesOverConcat ==
    catPc = "done" => catWhole = catParts

\* Each upstream holds one value whose sub-stream has three atoms.
FlatMapDistributesOverConcatWitness ==
    /\ catPc = "done"
    /\ Len(catXs) = 1
    /\ Len(catYs) = 1
    /\ Len(catWhole.atoms) = 6
    /\ ~catWhole.errored

-----------------------------------------------------------------------------
(* Properties of a pipeline. *)

\* The atoms of q stand in the order of the source atoms they stem from.
InSourceOrder(q) == \A i, j \in DOMAIN q : i < j => q[i].origin <= q[j].origin

=============================================================================
